---------------------------- MODULE Spec2Model ----------------------------
(***************************************************************************)
(* Model of the stremio-bitmagnet-2 addon: title-to-metadata extraction    *)
(* (parseTorrentTitle, cleanTitle), quality classification                 *)
(* (getQualityRank) and the request pipeline (processStreamRequest).       *)
(*                                                                         *)
(* JavaScript strings are TLA+ strings; the character at index i of s is   *)
(* the one-character string SubSeq(s, i, i) (1-based).  A missing string   *)
(* field (undefined) is the empty string: the sources test these fields    *)
(* only by truthiness, under which undefined and "" agree.  A missing      *)
(* number is undefinedNum.                                                 *)
(***************************************************************************)
EXTENDS Integers, Sequences, FiniteSets, TLC

VARIABLES
    request,        \* StremioRequestType handed to processStreamRequest
    config,         \* AddonConfig
    upstream,       \* the torrents the Bitmagnet index can answer with
    pc,             \* position inside processStreamRequest: idle, awaiting, done
    queryState,     \* per issued query: "pending", "ok" or "failed"
    queryResults,   \* per issued query: what fetchAndProcessBitmagnetResults resolved to
    rawResults,     \* allResultsNested.flat()
    uniqueResults,  \* after de-duplication
    parsedStreams,  \* the candidate list the response is built from
    log,            \* the candidate list as it stood after each step
    parseIn,        \* title handed to parseTorrentTitle
    parseOut,       \* ParsedMetadata it returned
    matchOut,       \* verdict of the season/episode check on parseOut
    completed,      \* the issued queries in the order they settled
    rankIn,         \* ParsedMetadata (or undefined) handed to getQualityRank
    rankOut,        \* VideoQualityRank it returned
    cachedTrackers, \* trackerService: the cached TrackerSources
    lastFetched,    \* trackerService: time of the last refresh attempt that settled
    isFetching,     \* trackerService: the mutex of fetchTrackers
    clock,          \* Date.now()
    ticks,          \* how often the clock has advanced
    inFlight,       \* the refreshes awaiting their network request, each by its `now`
    returned,       \* what the last call of the tracker service that returned gave back
    lastRefresh,    \* the refresh that settled last: its `now` and how it went
    REGEX_PATTERNS, \* the lastIndex each global pattern of the constants module carries
    calls           \* the calls of parseTorrentTitle so far, each with what it returned

rankVars == <<rankIn, rankOut>>
trackerVars == <<cachedTrackers, lastFetched, isFetching, clock, ticks, inFlight, returned,
                 lastRefresh>>

regexVars == <<REGEX_PATTERNS, calls>>

vars == <<request, config, upstream, pc, queryState, queryResults, rawResults,
          uniqueResults, parsedStreams, log, parseIn, parseOut, matchOut, completed,
          rankVars, trackerVars, regexVars>>

-----------------------------------------------------------------------------
(* Characters and JavaScript string primitives                             *)

\* the element of a set of one element: The({e(x) : x \in {v}}) is e(v) with v
\* worked out once
The(S) == CHOOSE x \in S : TRUE

\* Call("f", <<a, b>>) is f(a, b). The functions that are called from many places
\* are called through Call, so that TLC expands the body of each of them in one
\* place only when it sets up its coverage statistics.
RECURSIVE Call(_, _)

Ch(s, i) == IF i >= 1 /\ i <= Len(s) THEN SubSeq(s, i, i) ELSE ""

\* the characters i..j of s, as far as s reaches (String.prototype.substring)
Sub(s, i, j) ==
    LET a == IF i < 1 THEN 1 ELSE i
        b == IF j > Len(s) THEN Len(s) ELSE j
    IN  IF a > b THEN "" ELSE SubSeq(s, a, b)

LowerAlpha == "abcdefghijklmnopqrstuvwxyz"
UpperAlpha == "ABCDEFGHIJKLMNOPQRSTUVWXYZ"
DigitAlpha == "0123456789"

LowerChars == {Ch(LowerAlpha, i) : i \in 1..26}
UpperChars == {Ch(UpperAlpha, i) : i \in 1..26}
DigitChars == {Ch(DigitAlpha, i) : i \in 1..10}

UpperOf == [c \in LowerChars |-> Ch(UpperAlpha, CHOOSE i \in 1..26 : Ch(LowerAlpha, i) = c)]

UpperChar(c) == IF c \in LowerChars THEN UpperOf[c] ELSE c

RECURSIVE toUpperCase(_)
toUpperCase(s) == IF s = "" THEN "" ELSE UpperChar(Head(s)) \o toUpperCase(Tail(s))

IsDigit(c) == c \in DigitChars
IsAlnum(c) == c \in LowerChars \/ c \in UpperChars \/ c \in DigitChars
\* \w of a regular expression
IsWordChar(c) == IsAlnum(c) \/ c = "_"
\* \s of a regular expression (the titles of the model hold no other white space)
IsSpace(c) == c = " "

\* \b between the characters i-1 and i of s
WordBoundary(s, i) == IsWordChar(Ch(s, i - 1)) # IsWordChar(Ch(s, i))

\* lit occurs at index i of s, compared case-insensitively (the i flag)
MatchLitAt(s, i, lit) ==
    /\ i >= 1
    /\ i + Len(lit) - 1 <= Len(s)
    /\ toUpperCase(SubSeq(s, i, i + Len(lit) - 1)) = toUpperCase(lit)

\* String.prototype.includes / startsWith (case-sensitive)
includes(s, sub) == \E i \in 1..(Len(s) - Len(sub) + 1) : SubSeq(s, i, i + Len(sub) - 1) = sub
startsWith(s, pre) == Len(pre) <= Len(s) /\ SubSeq(s, 1, Len(pre)) = pre

\* number of digits starting at index i of s
RECURSIVE DigitRun(_, _)
DigitRun(s, i) == IF IsDigit(Ch(s, i)) THEN 1 + DigitRun(s, i + 1) ELSE 0

Min(a, b) == IF a <= b THEN a ELSE b

\* String.prototype.trim
RECURSIVE trimStart(_)
trimStart(s) == IF s # "" /\ IsSpace(Head(s)) THEN trimStart(Tail(s)) ELSE s
RECURSIVE trimEnd(_)
trimEnd(s) == IF s # "" /\ IsSpace(Ch(s, Len(s))) THEN trimEnd(SubSeq(s, 1, Len(s) - 1)) ELSE s
trim(s) == The({trimEnd(trimStart(str)) : str \in {s}})

\* String(n) for n >= 0, and parseInt(s, 10) of a digit string
RECURSIVE numToString(_)
numToString(n) == IF n < 10 THEN Ch(DigitAlpha, n + 1)
                  ELSE numToString(n \div 10) \o Ch(DigitAlpha, (n % 10) + 1)
DigitValue(c) == (CHOOSE i \in 1..10 : Ch(DigitAlpha, i) = c) - 1
RECURSIVE parseInt(_)
parseInt(s) == IF s = "" THEN 0
               ELSE parseInt(SubSeq(s, 1, Len(s) - 1)) * 10 + DigitValue(Ch(s, Len(s)))

\* String.prototype.padStart(2, '0')
padStart2(s) == IF Len(s) >= 2 THEN s ELSE IF Len(s) = 1 THEN "0" \o s ELSE "00"

-----------------------------------------------------------------------------
(* Regular expressions of REGEX_PATTERNS.  A match is a record: index (0   *)
(* when exec returns null), text (match[0]) and g1 (match[1], "" when the  *)
(* group did not take part).                                               *)

NoMatch == [index |-> 0, text |-> "", g1 |-> ""]

\* the least index of a set of indices, 0 when it is empty
Least(hits) == IF hits = {} THEN 0 ELSE CHOOSE i \in hits : \A j \in hits : i <= j

\* regex.exec: the leftmost index past the first lastIndex characters at which
\* there is a match, 0 when there is none, given the length lens[i] of the match
\* at every index i (0: no match there)
FirstIndex_lastMatch(lens, lastIndex) ==
    IF \A i \in DOMAIN lens : lens[i] = 0 THEN 0
    ELSE CHOOSE i \in DOMAIN lens : lens[i] > 0 /\ \A j \in DOMAIN lens : lens[j] > 0 => j <= i

FirstIndex(lens, lastIndex) == Least({i \in DOMAIN lens : i > lastIndex /\ lens[i] > 0})

\* regex.lastIndex = 0: the position the pattern carried is dropped
resetLastIndex_kept(lastIndex) == lastIndex

resetLastIndex(lastIndex) == 0

\* the lastIndex a global pattern is left with by the exec that returned m: the
\* end of the match, 0 when there was none
lastIndexOf(m) == IF m.index = 0 THEN 0 ELSE m.index - 1 + Len(m.text)

\* the result of exec for a match of length n at index at (no match: at = 0) whose
\* first group is the whole match
MatchAt(s, at, n) ==
    IF at = 0 THEN NoMatch
    ELSE [index |-> at, text |-> Sub(s, at, at + n - 1), g1 |-> Sub(s, at, at + n - 1)]

\* \b(alt1|alt2|...)\b at index i: the length of the first alternative, in the
\* order written, that occurs there and ends on a word boundary; 0 when none
RECURSIVE AltLenFrom(_, _, _, _)
AltLenFrom(s, i, alts, k) ==
    IF k > Len(alts) THEN 0
    ELSE IF MatchLitAt(s, i, alts[k]) /\ WordBoundary(s, i + Len(alts[k]))
         THEN Len(alts[k])
         ELSE AltLenFrom(s, i, alts, k + 1)

WordAltLenAt(s, i, alts) == IF WordBoundary(s, i) THEN AltLenFrom(s, i, alts, 1) ELSE 0

\* exec of /\b(alts)\b/ig on s
ExecWordAlt(s, alts, lastIndex) ==
    The({ MatchAt(s, at, WordAltLenAt(s, at, alts))
          : at \in {FirstIndex([i \in 1..Len(s) |-> WordAltLenAt(s, i, alts)], lastIndex)} })

\* YEAR: /\b((?:19[89]|20[0-2])\d)\b/g
YearLenAt(s, i) ==
    IF /\ WordBoundary(s, i)
       /\ \/ (Sub(s, i, i + 1) = "19" /\ Ch(s, i + 2) \in {"8", "9"})
          \/ (Sub(s, i, i + 1) = "20" /\ Ch(s, i + 2) \in {"0", "1", "2"})
       /\ IsDigit(Ch(s, i + 3))
       /\ WordBoundary(s, i + 4)
    THEN 4 ELSE 0

ExecYear(s, lastIndex) ==
    MatchAt(s, FirstIndex([i \in 1..Len(s) |-> YearLenAt(s, i)], lastIndex), 4)

RESOLUTION_ALTS == <<"4K", "2160p", "1080p", "720p", "576p", "480p", "360p", "SD">>

QUALITY_SOURCE_ALTS ==
    <<"BluRay", "Blu-Ray", "BDRip", "BRRip", "WEB-DL", "WEBDL", "WEB-Rip", "WEBRIP", "WEB",
      "HDRip", "DVDRip", "DVD-R", "DVDScr", "SCREENER", "SCR", "TS", "TELESYNC", "TC",
      "TELECINE", "CAM", "HDTV", "PDTV", "SATRip", "DSR", "REMUX", "Complete", "REPACK",
      "PROPER">>

\* x26[45] | H\.?26[45] | HEVC | AV1 | AVC | XViD | DiVX | VP9, written out
VIDEO_CODEC_ALTS ==
    <<"x264", "x265", "H.264", "H.265", "H264", "H265", "HEVC", "AV1", "AVC", "XViD",
      "DiVX", "VP9">>

\* HDR10(?:Plus|\+)? | HDR | Dolby Vision | DV | HLG, written out (the optional
\* suffix is greedy, so the longer forms are tried first)
HDR_ALTS == <<"HDR10Plus", "HDR10+", "HDR10", "HDR", "Dolby Vision", "DV", "HLG">>

THREE_D_ALTS == <<"3D">>

\* Dual[\s.]Audio and Multi[\s.]Audio are written out for the separators " " and "."
LANGUAGES_ALTS ==
    <<"English", "ENG", "Spanish", "SPA", "ESP", "French", "FRE", "FRA", "FR", "German",
      "GER", "DEU", "DE", "Italian", "ITA", "IT", "Russian", "RUS", "RU", "Japanese", "JPN",
      "JP", "Korean", "KOR", "KO", "Chinese", "CHI", "ZH", "Mandarin", "Cantonese", "Hindi",
      "HIN", "HI", "Tamil", "TAM", "TA", "Telugu", "TEL", "TE", "Malayalam", "MAL", "ML",
      "Dual Audio", "Dual.Audio", "Multi Audio", "Multi.Audio", "VOSTFR", "SUBFRENCH",
      "ENGSUB", "SUBBED">>

\* (?!\d|p|K) under the i flag
NotDigitPK(c) == ~IsDigit(c) /\ toUpperCase(c) \notin {"P", "K"}

\* SEASON_EPISODE at index i, one alternative after the other:
\*   [Ss](\d{1,3})[Ee](\d{1,4})(?:-[Ee]?(\d{1,4}))?  |  [Ss](\d{1,3})(?!\d|p|K)
\*   |  [Ee][Pp]?(\d{1,4})(?!\d|p|K)  |  PART\.?(\d{1,2})
\* len is the length of match[0] (0: no match here) and g1 is the first group, which
\* only the first alternative fills.
NoneHere == [len |-> 0, g1 |-> ""]

\* the length of (?:-[Ee]?(\d{1,4}))? at index t
RangeLenAt(s, t) ==
    IF Ch(s, t) # "-" THEN 0
    ELSE IF toUpperCase(Ch(s, t + 1)) = "E" /\ DigitRun(s, t + 2) >= 1
    THEN 2 + Min(DigitRun(s, t + 2), 4)
    ELSE IF DigitRun(s, t + 1) >= 1 THEN 1 + Min(DigitRun(s, t + 1), 4)
    ELSE 0

\* the first alternative, given its r season digits and n2 episode digits
SeasonAndEpisode(s, i, r, n2) ==
    [len |-> 2 + r + n2 + RangeLenAt(s, i + 2 + r + n2), g1 |-> Sub(s, i + 1, i + r)]

\* the third alternative, given the length p of [Pp]?
EpisodeOnlyAt(s, i, p) ==
    The({ IF rE \in 1..4 /\ NotDigitPK(Ch(s, i + 1 + p + rE))
          THEN [len |-> 1 + p + rE, g1 |-> ""] ELSE NoneHere
          : rE \in {DigitRun(s, i + 1 + p)} })

\* the fourth alternative, given the length dot of \.?
PartAt(s, i, dot) ==
    IF MatchLitAt(s, i, "PART") /\ DigitRun(s, i + 4 + dot) >= 1
    THEN [len |-> 4 + dot + Min(DigitRun(s, i + 4 + dot), 2), g1 |-> ""]
    ELSE NoneHere

\* r is the run of digits behind the first character
SeasonEpisodeAt(s, i) ==
    The({ IF toUpperCase(Ch(s, i)) = "S"
          THEN IF r \in 1..3 /\ toUpperCase(Ch(s, i + 1 + r)) = "E"
                  /\ DigitRun(s, i + 2 + r) >= 1
               THEN SeasonAndEpisode(s, i, r, Min(DigitRun(s, i + 2 + r), 4))
               ELSE IF r \in 1..3 /\ NotDigitPK(Ch(s, i + 1 + r))
               THEN [len |-> 1 + r, g1 |-> ""]
               ELSE NoneHere
          ELSE IF toUpperCase(Ch(s, i)) = "E"
          THEN EpisodeOnlyAt(s, i, IF toUpperCase(Ch(s, i + 1)) = "P" THEN 1 ELSE 0)
          ELSE PartAt(s, i, IF Ch(s, i + 4) = "." THEN 1 ELSE 0)
          : r \in {DigitRun(s, i + 1)} })

ExecSeasonEpisode(s, lastIndex) ==
    The({ IF at = 0 THEN NoMatch
          ELSE The({ [index |-> at, text |-> Sub(s, at, at + m.len - 1), g1 |-> m.g1]
                     : m \in {SeasonEpisodeAt(s, at)} })
          : at \in {FirstIndex([i \in 1..Len(s) |-> SeasonEpisodeAt(s, i).len], lastIndex)} })

\* RELEASE_GROUP: /(?:^|[\s.\-_\[])([a-zA-Z0-9]+(?:-[a-zA-Z0-9]+)?)$/i
GroupSeparators == {" ", ".", "-", "_", "["}

RECURSIVE AlnumRun(_, _)
AlnumRun(s, i) == IF IsAlnum(Ch(s, i)) THEN 1 + AlnumRun(s, i + 1) ELSE 0

\* s from index p to its end reads [a-zA-Z0-9]+(?:-[a-zA-Z0-9]+)?
IsGroupTail(s, p) ==
    LET n1 == AlnumRun(s, p)
        n2 == AlnumRun(s, p + n1 + 1)
    IN  /\ n1 >= 1
        /\ \/ p + n1 - 1 = Len(s)
           \/ Ch(s, p + n1) = "-" /\ n2 >= 1 /\ p + n1 + n2 = Len(s)

\* p is the least index at which the group can start: at the start of s or
\* behind a separator, which is then part of the match
ExecReleaseGroup(s) ==
    The({ IF p = 0 THEN NoMatch
          ELSE [index |-> IF p = 1 THEN 1 ELSE p - 1,
                text  |-> Sub(s, IF p = 1 THEN 1 ELSE p - 1, Len(s)),
                g1    |-> Sub(s, p, Len(s))]
          : p \in {Least({q \in 1..Len(s) :
                            /\ q = 1 \/ Ch(s, q - 1) \in GroupSeparators
                            /\ IsGroupTail(s, q)})} })


\* every match of /\b(alts)\b/ig in s from index i on, left to right (the exec loop)
RECURSIVE AllWordAltFrom(_, _, _)
AllWordAltFrom(s, i, alts) ==
    The({ IF at = 0 THEN <<>>
          ELSE The({ <<Sub(s, at, at + n - 1)>> \o AllWordAltFrom(s, at + n, alts)
                     : n \in {WordAltLenAt(s, at, alts)} })
          : at \in {Least({j \in i..Len(s) : WordAltLenAt(s, j, alts) > 0})} })

\* Array.prototype.map(l => l.toUpperCase())
RECURSIVE upperAll(_)
upperAll(xs) == IF xs = <<>> THEN <<>> ELSE <<toUpperCase(Head(xs))>> \o upperAll(Tail(xs))

\* Array.from(new Set(values)): first occurrences, in order
RECURSIVE Unique(_)
Unique(xs) ==
    IF xs = <<>> THEN <<>>
    ELSE LET init == Unique(SubSeq(xs, 1, Len(xs) - 1))
             last == xs[Len(xs)]
         IN  IF \E k \in 1..Len(init) : init[k] = last THEN init ELSE Append(init, last)

\* Array.prototype.join(' ')
RECURSIVE joinSpace(_)
joinSpace(xs) ==
    IF xs = <<>> THEN ""
    ELSE IF Len(xs) = 1 THEN xs[1]
    ELSE xs[1] \o " " \o joinSpace(Tail(xs))

-----------------------------------------------------------------------------
(* Tables of constants.ts                                                  *)

\* a Record<string, string> as a set of <<key, value>> pairs; a key that is
\* absent reads as undefined ("")
Lookup(map, k) == IF \E p \in map : p[1] = k THEN (CHOOSE p \in map : p[1] = k)[2] ELSE ""

LANGUAGE_MAP ==
    { <<"ENG", "English">>, <<"ENGLISH", "English">>, <<"EN", "English">>,
      <<"SPA", "Spanish">>, <<"ESPANOL", "Spanish">>, <<"ESP", "Spanish">>, <<"ES", "Spanish">>,
      <<"FRE", "French">>, <<"FRENCH", "French">>, <<"FRA", "French">>, <<"FR", "French">>,
      <<"GER", "German">>, <<"GERMAN", "German">>, <<"DEU", "German">>, <<"DE", "German">>,
      <<"ITA", "Italian">>, <<"ITALIAN", "Italian">>, <<"IT", "Italian">>,
      <<"RUS", "Russian">>, <<"RUSSIAN", "Russian">>, <<"RU", "Russian">>,
      <<"JPN", "Japanese">>, <<"JAPANESE", "Japanese">>, <<"JP", "Japanese">>,
      <<"KOR", "Korean">>, <<"KOREAN", "Korean">>, <<"KO", "Korean">>,
      <<"CHI", "Chinese">>, <<"CHINESE", "Chinese">>, <<"ZH", "Chinese">>,
      <<"HIN", "Hindi">>, <<"HINDI", "Hindi">>, <<"HI", "Hindi">>,
      <<"TAM", "Tamil">>, <<"TA", "Tamil">>,
      <<"TEL", "Telugu">>, <<"TE", "Telugu">>,
      <<"MAL", "Malayalam">>, <<"ML", "Malayalam">>,
      <<"DUALAUDIO", "Dual Audio">>, <<"MULTIAUDIO", "Multi Audio">>,
      <<"DUAL", "Dual Audio">>, <<"MULTI", "Multi Audio">>,
      <<"VOSTFR", "French (VOSTFR)">>, <<"SUBFRENCH", "French (Subbed)">>,
      <<"ENGSUB", "English Subtitles">>, <<"SUBBED", "Subbed">> }

\* the plain words of COMMON_TRASH_TERMS, each compiled to /\bterm\b/ig; the last
\* entry of the list, /\[[a-zA-Z0-9\s\-]+\]/ig, is the pattern kind "bracket"
COMMON_TRASH_WORDS ==
    <<"REQ", "REQUEST", "RARBG", "PROPER", "REPACK", "REAL", "FINAL", "UNRATED",
      "DIRECTORS CUT", "EXTENDED", "LIMITED", "CRITERION", "COLLECTION", "INTERNAL",
      "COMPLETE", "SUBBED", "SUBS", "SUBTITLE", "SUBTITLES">>

-----------------------------------------------------------------------------
(* String.prototype.replace with a global regular expression.  A pattern   *)
(* is a record [kind, term]; PatLenAt is the length of its match at an     *)
(* index (0: none; no pattern here matches the empty string).              *)

TermLeadSeparators  == {".", " ", "_", "-", "["}
TermTrailSeparators == {".", " ", "_", "-", "]"}
LooseSeparators     == {".", " ", "_", "-"}

RECURSIVE RunOf(_, _, _)
RunOf(s, i, chars) == IF Ch(s, i) # "" /\ Ch(s, i) \in chars THEN 1 + RunOf(s, i + 1, chars) ELSE 0

\* (?:^|[.\s_\-\[])term(?:[.\s_\-\]]|$) with flags ig
TermLenAt(s, i, term) ==
    LET tail(j) == IF Ch(s, j) \in TermTrailSeparators THEN 1
                   ELSE IF j = Len(s) + 1 THEN 0 ELSE -1
        try(lead) == LET j == i + lead + Len(term)
                     IN  IF MatchLitAt(s, i + lead, term) /\ tail(j) >= 0
                         THEN lead + Len(term) + tail(j) ELSE 0
    IN  IF i = 1 /\ try(0) > 0 THEN try(0)
        ELSE IF Ch(s, i) \in TermLeadSeparators THEN try(1)
        ELSE 0

\* [.\s_-]?term[.\s_-]? with flags ig
LooseLenAt(s, i, term) ==
    LET tail(j) == IF Ch(s, j) \in LooseSeparators THEN 1 ELSE 0
    IN  IF Ch(s, i) \in LooseSeparators /\ MatchLitAt(s, i + 1, term)
        THEN 1 + Len(term) + tail(i + 1 + Len(term))
        ELSE IF MatchLitAt(s, i, term) THEN Len(term) + tail(i + Len(term))
        ELSE 0

\* \bterm\b with flags ig
WordLenAt(s, i, term) ==
    IF WordBoundary(s, i) /\ MatchLitAt(s, i, term) /\ WordBoundary(s, i + Len(term))
    THEN Len(term) ELSE 0

\* \[[a-zA-Z0-9\s\-]+\]
BracketLenAt(s, i) ==
    LET n == RunOf(s, i + 1, LowerChars \cup UpperChars \cup DigitChars \cup {" ", "-"})
    IN  IF Ch(s, i) = "[" /\ n >= 1 /\ Ch(s, i + 1 + n) = "]" THEN n + 2 ELSE 0

\* \s+term\s+ with flag i
SpacedLenAt(s, i, term) ==
    LET n1 == RunOf(s, i, {" "})
        n2 == RunOf(s, i + n1 + Len(term), {" "})
    IN  IF n1 >= 1 /\ MatchLitAt(s, i + n1, term) /\ n2 >= 1 THEN n1 + Len(term) + n2 ELSE 0

\* \s+\bterm\b with flags ig
TagLenAt(s, i, term) ==
    LET n == RunOf(s, i, {" "})
    IN  IF n >= 1 /\ WordLenAt(s, i + n, term) > 0 THEN n + Len(term) ELSE 0

PatLenAt(pat, s, i) ==
    CASE pat.kind = "term"    -> TermLenAt(s, i, pat.term)
      [] pat.kind = "loose"   -> LooseLenAt(s, i, pat.term)
      [] pat.kind = "word"    -> WordLenAt(s, i, pat.term)
      [] pat.kind = "bracket" -> BracketLenAt(s, i)
      [] pat.kind = "seps"    -> RunOf(s, i, {".", "_", "-"})     \* [._-]+
      [] pat.kind = "spaces"  -> RunOf(s, i, {" "})               \* \s+
      [] pat.kind = "hyphen"  -> IF Ch(s, i) = "-" THEN 1 ELSE 0  \* -
      [] pat.kind = "punct"   -> IF Ch(s, i) \in {".", "_", "(", ")", "[", "]"} THEN 1 ELSE 0
      [] pat.kind = "spaced"  -> SpacedLenAt(s, i, pat.term)
      [] pat.kind = "tag"     -> TagLenAt(s, i, pat.term)

\* the leftmost index >= from at which pat matches, 0 when there is none
NextMatch(s, from, pat) == Least({j \in from..Len(s) : PatLenAt(pat, s, j) > 0})

\* s from index i on, every match replaced: what lies before the next match is
\* copied, the match becomes repl and the scan goes on behind it
RECURSIVE ReplaceFrom(_, _, _, _)
ReplaceFrom(s, i, pat, repl) ==
    The({ IF at = 0 THEN Sub(s, i, Len(s))
          ELSE Sub(s, i, at - 1) \o repl
               \o ReplaceFrom(s, at + PatLenAt(pat, s, at), pat, repl)
          : at \in {NextMatch(s, i, pat)} })

ReplaceAll(s, pat, repl) == The({ReplaceFrom(str, 1, pat, repl) : str \in {s}})

\* cleaned.replace(/[._-]+/g, ' ').replace(/\s+/g, ' ').trim()
CollapseSeparators(s) ==
    trim(Call("ReplaceAll", <<Call("ReplaceAll", <<s, [kind |-> "seps", term |-> ""], " ">>),
                    [kind |-> "spaces", term |-> ""], " ">>))


-----------------------------------------------------------------------------
(* metadataParser: parseSize, cleanTitle, parseTorrentTitle                *)

\* a number that is undefined
undefinedNum == -1
\* JavaScript truthiness of an optional number
TruthyNum(n) == n # undefinedNum /\ n # 0
\* a || b for strings, a || b for numbers
OrStr(a, b) == IF a # "" THEN a ELSE b
OrNum(a, b) == IF TruthyNum(a) THEN a ELSE b

\* SIZE: /(\d+(?:\.\d+)?)\s*(TB|GB|MB|KB|TiB|GiB|MiB|KiB)/ig
SIZE_UNITS == <<"TB", "GB", "MB", "KB", "TiB", "GiB", "MiB", "KiB">>

RECURSIVE UnitLenFrom(_, _, _)
UnitLenFrom(s, i, k) ==
    IF k > Len(SIZE_UNITS) THEN 0
    ELSE IF MatchLitAt(s, i, SIZE_UNITS[k]) THEN Len(SIZE_UNITS[k])
    ELSE UnitLenFrom(s, i, k + 1)

\* the length of (?:\.\d+)? at index i
FractionLenAt(s, i) ==
    IF Ch(s, i) = "." /\ DigitRun(s, i + 1) >= 1 THEN 1 + DigitRun(s, i + 1) ELSE 0

\* the parts of a SIZE match at index i with r whole digits, a fraction of length
\* frac (its dot counted), sp spaces and a unit of length ul: whole digits,
\* fraction digits ("" when there is no fraction), unit, and the length of the
\* match (0: no match)
SizeParts(s, i, r, frac, sp, ul) ==
    IF r >= 1 /\ ul > 0
    THEN [len |-> r + frac + sp + ul, whole |-> Sub(s, i, i + r - 1),
          fraction |-> Sub(s, i + r + 1, i + r + frac - 1),
          unit |-> toUpperCase(Sub(s, i + r + frac + sp, i + r + frac + sp + ul - 1))]
    ELSE [len |-> 0, whole |-> "", fraction |-> "", unit |-> ""]

SizeAt(s, i) ==
    The({ The({ The({ SizeParts(s, i, r, frac, sp, UnitLenFrom(s, i + r + frac + sp, 1))
                      : sp \in {RunOf(s, i + r + frac, {" "})} })
                : frac \in {FractionLenAt(s, i + r)} })
          : r \in {DigitRun(s, i)} })

ExecSize(s, lastIndex) ==
    The({ IF at = 0 THEN NoMatch
          ELSE The({ [index |-> at, text |-> Sub(s, at, at + m.len - 1),
                      g1 |-> m.whole \o (IF m.fraction = "" THEN "" ELSE "." \o m.fraction)]
                     : m \in {SizeAt(s, at)} })
          : at \in {FirstIndex([i \in 1..Len(s) |-> SizeAt(s, i).len], lastIndex)} })

RECURSIVE Pow(_, _)
Pow(b, e) == IF e = 0 THEN 1 ELSE b * Pow(b, e - 1)

\* (q + r / scale) * 1024^k, rounded down: the multiplication is carried out one
\* factor 1024 at a time, so that no intermediate value is larger than the result
RECURSIVE Times1024(_, _, _, _)
Times1024(q, r, scale, k) ==
    IF k = 0 THEN q
    ELSE Times1024(q * 1024 + (r * 1024) \div scale, (r * 1024) % scale, scale, k - 1)

\* the switch of parseSize on the unit of the match m
bytesOf(m) ==
    Times1024(parseInt(m.whole), parseInt(m.fraction), Pow(10, Len(m.fraction)),
              IF startsWith(m.unit, "KB") \/ startsWith(m.unit, "KIB") THEN 1
              ELSE IF startsWith(m.unit, "MB") \/ startsWith(m.unit, "MIB") THEN 2
              ELSE IF startsWith(m.unit, "GB") \/ startsWith(m.unit, "GIB") THEN 3
              ELSE 4)

\* parseSize: parseFloat of the number times the unit's power of 1024.  Byte
\* counts are integers in the model: a fractional byte is dropped
parseSize(sizeStr) ==
    The({ IF at = 0 THEN undefinedNum ELSE bytesOf(SizeAt(sizeStr, at))
          : at \in {FirstIndex([i \in 1..Len(sizeStr) |-> SizeAt(sizeStr, i).len], 0)} })

\* the HDR literal cleanTitle removes: originalTitle.match(HDR)?.[0] || 'HDR'
HdrLiteral(parsedMeta) ==
    IF parsedMeta.isHDR
    THEN OrStr(Call("ExecWordAlt", <<parsedMeta.originalTitle, HDR_ALTS, 0>>).text, "HDR")
    ELSE ""

\* toRemoveExact, after .filter(Boolean)
toRemoveExact(parsedMeta) ==
    SelectSeq(
        << IF parsedMeta.year = undefinedNum THEN "" ELSE numToString(parsedMeta.year),
           parsedMeta.resolution,
           parsedMeta.qualitySource,
           parsedMeta.videoCodec,
           HdrLiteral(parsedMeta),
           IF parsedMeta.is3D THEN "3D" ELSE "",
           parsedMeta.episodeInfo,
           parsedMeta.releaseGroup >>
        \o SelectSeq(parsedMeta.languages,
                     LAMBDA lang : Len(lang) <= 3 \/ Lookup(LANGUAGE_MAP, toUpperCase(lang)) # ""),
        LAMBDA t : t # "")

RECURSIVE RemoveTerms(_, _)
RemoveTerms(cleaned, terms) ==
    IF terms = <<>> THEN cleaned
    ELSE The({ RemoveTerms(next, Tail(terms))
               : next \in {Call("ReplaceAll",
                                <<cleaned, [kind |-> "term", term |-> Head(terms)], " ">>)} })

RECURSIVE RemoveTrashWords(_, _)
RemoveTrashWords(cleaned, words) ==
    IF words = <<>> THEN cleaned
    ELSE The({ RemoveTrashWords(next, Tail(words))
               : next \in {Call("ReplaceAll",
                                <<cleaned, [kind |-> "word", term |-> Head(words)], " ">>)} })

RemoveTrash(cleaned) ==
    Call("ReplaceAll", <<RemoveTrashWords(cleaned, COMMON_TRASH_WORDS), [kind |-> "bracket", term |-> ""], " ">>)

\* /^\d{4}$/.test(s)
IsFourDigits(s) == Len(s) = 4 /\ DigitRun(s, 1) = 4

\* if (present) fallbackCleaned = fallbackCleaned.replace([.\s_-]?<term>[.\s_-]?, ' ')
withoutTerm(fallbackCleaned, present, term) ==
    The({ IF present THEN Call("ReplaceAll", <<str, [kind |-> "loose", term |-> term], " ">>) ELSE str
          : str \in {fallbackCleaned} })

\* the fallback of cleanTitle: the search title (or the title) without year and
\* release group, else the title without the release group, else the title
fallbackTitle(title, parsedMeta, originalSearchTitle) ==
    The({ IF fallbackCleaned = "" /\ parsedMeta.releaseGroup # ""
          THEN trim(Call("ReplaceAll", <<title, [kind |-> "loose", term |-> parsedMeta.releaseGroup], "">>))
          ELSE IF fallbackCleaned # "" THEN fallbackCleaned ELSE trim(title)
          : fallbackCleaned \in
              {CollapseSeparators(
                 withoutTerm(
                   withoutTerm(IF originalSearchTitle # "" THEN originalSearchTitle ELSE title,
                               TruthyNum(parsedMeta.year), numToString(parsedMeta.year)),
                   parsedMeta.releaseGroup # "", parsedMeta.releaseGroup))} })

cleanTitle(title, parsedMeta, originalSearchTitle) ==
    The({ IF (Len(cleaned) < 5 /\ Len(title) > 10) \/ IsFourDigits(cleaned)
          THEN fallbackTitle(title, parsedMeta, originalSearchTitle)
          ELSE cleaned
          : cleaned \in {CollapseSeparators(RemoveTrash(
                             RemoveTerms(title, toRemoveExact(parsedMeta))))} })

\* const metadata: ParsedMetadata = { originalTitle: title }
EmptyMetadata(title) ==
    [originalTitle |-> title, cleanedTitle |-> "", year |-> undefinedNum, resolution |-> "",
     qualitySource |-> "", videoCodec |-> "", audioCodec |-> "", languages |-> <<>>,
     isHDR |-> FALSE, is3D |-> FALSE, releaseGroup |-> "", episodeInfo |-> "",
     rawSize |-> "", calculatedSize |-> undefinedNum, seeders |-> undefinedNum]

IsSet(metadata, field) ==
    IF field = "year" THEN TruthyNum(metadata.year) ELSE metadata[field] # ""

\* match[1] || match[0]
valueToSet(m) == IF m.g1 # "" THEN m.g1 ELSE m.text

\* extractFirstMatch, given the exec result m and the transformed value: the field
\* is assigned only when there is a match and the field is not set yet
extractFirstMatch(metadata, m, field, processedValue) ==
    IF m.index # 0 /\ ~IsSet(metadata, field)
    THEN [metadata EXCEPT ![field] = processedValue]
    ELSE metadata

\* replace(/[\s.]AUDIO/, ''): the first occurrence goes
removeAudio(up) ==
    The({ IF i = 0 THEN up ELSE Sub(up, 1, i - 1) \o Sub(up, i + 6, Len(up))
          : i \in {Least({j \in 1..Len(up) :
                            Ch(up, j) \in {" ", "."} /\ Sub(up, j + 1, j + 5) = "AUDIO"})} })

\* replace(/SUB$/, '')
removeSubSuffix(key) ==
    IF Len(key) >= 3 /\ Sub(key, Len(key) - 2, Len(key)) = "SUB"
    THEN Sub(key, 1, Len(key) - 3) ELSE key

\* langKey of one LANGUAGES match:
\* toUpperCase().replace(/[\s.]AUDIO/, '').replace(/SUB$/, '').trim()
langKeyOf(part) == trim(removeSubSuffix(removeAudio(toUpperCase(part))))

\* what a langKey adds to foundLanguages (no token the pattern matches holds "+"
\* or ",", so the split branch adds nothing)
languageOfKey(langKey) ==
    IF Lookup(LANGUAGE_MAP, langKey) # "" THEN <<Lookup(LANGUAGE_MAP, langKey)>>
    ELSE IF includes(langKey, "+") \/ includes(langKey, ",") THEN <<>>
    ELSE IF Len(langKey) >= 2 /\ Len(langKey) <= 7 THEN <<langKey>>
    ELSE <<>>

foundLanguageOf(part) == languageOfKey(langKeyOf(part))

RECURSIVE foundLanguages(_)
foundLanguages(parts) ==
    IF parts = <<>> THEN <<>> ELSE foundLanguageOf(Head(parts)) \o foundLanguages(Tail(parts))

\* AUDIO_CODEC, with the optional parts written out in the order a greedy match
\* tries them
AUDIO_CODEC_ALTS ==
    <<"Atmos", "TrueHD", "DTS-HD MA", "DTS-HD.MA", "DTS-HDMA", "DTS-HD", "DTS-ES", "DTS-EX",
      "DTS-X", "DTS", "Dolby Digital Plus", "DD+", "EAC3", "AC3", "AAC-LC", "AAC-HE", "AAC",
      "MP3", "Opus", "FLAC", "PCM", "Vorbis", "DD+P5.1", "DD+5.1", "DDP5.1", "DD5.1",
      "DD+P7.1", "DD+7.1", "DDP7.1", "DD7.1", "5.1", "7.1", "2.0", "LiNE", "AUD", "STEREO">>

\* extractAllMatches(AUDIO_CODEC, 'audioCodec', true), the array joined by ' ',
\* the loop of exec starting from lastIndex
extractAudioCodec(metadata, workTitle, lastIndex) ==
    LET values == upperAll(Call("AllWordAltFrom",
                                <<workTitle, lastIndex + 1, AUDIO_CODEC_ALTS>>))
    IN  IF Len(values) > 0 /\ metadata.audioCodec = ""
        THEN [metadata EXCEPT !.audioCodec = joinSpace(Unique(values))]
        ELSE metadata

\* extractFirstMatch with the default transform, toUpperCase
extractUpper(metadata, m, field) ==
    extractFirstMatch(metadata, m, field, toUpperCase(valueToSet(m)))

\* the release group transform: val.startsWith('-') ? val.substring(1) : val
stripHyphen(val) == IF startsWith(val, "-") THEN Sub(val, 2, Len(val)) ELSE val

\* the numbered steps of parseTorrentTitle, one at a time, on the metadata so far;
\* patterns holds the lastIndex each global pattern carries into the call
parseStep(step, metadata, title, originalSearchTitle, torrentYearFromBitmagnet, patterns) ==
    CASE step = 1 ->
           IF TruthyNum(torrentYearFromBitmagnet)
           THEN [metadata EXCEPT !.year = torrentYearFromBitmagnet]
           ELSE The({ extractFirstMatch(metadata, m, "year", parseInt(valueToSet(m)))
                      : m \in {ExecYear(title, resetLastIndex(patterns.YEAR))} })
      [] step = 2 ->
           extractUpper(metadata,
                        ExecSeasonEpisode(title, resetLastIndex(patterns.SEASON_EPISODE)),
                        "episodeInfo")
      [] step = 3 ->
           extractUpper(metadata,
                        Call("ExecWordAlt", <<title, RESOLUTION_ALTS,
                                              resetLastIndex(patterns.RESOLUTION)>>),
                        "resolution")
      [] step = 4 ->
           extractUpper(metadata,
                        Call("ExecWordAlt", <<title, QUALITY_SOURCE_ALTS,
                                              resetLastIndex(patterns.QUALITY_SOURCE)>>),
                        "qualitySource")
      [] step = 5 ->
           extractUpper(metadata,
                        Call("ExecWordAlt", <<title, VIDEO_CODEC_ALTS,
                                              resetLastIndex(patterns.VIDEO_CODEC)>>),
                        "videoCodec")
      [] step = 6 -> extractAudioCodec(metadata, title, resetLastIndex(patterns.AUDIO_CODEC))
      [] step = 7 ->
           [metadata EXCEPT
              !.isHDR = Call("ExecWordAlt",
                             <<title, HDR_ALTS, resetLastIndex(patterns.HDR)>>).index # 0,
              !.is3D  = Call("ExecWordAlt",
                             <<title, THREE_D_ALTS, resetLastIndex(patterns.THREE_D)>>).index # 0]
      [] step = 8 ->
           The({ IF Len(found) > 0
                 THEN [metadata EXCEPT !.languages =
                          Unique(SelectSeq(found, LAMBDA l : Len(l) > 1 /\ ~includes(l, "AUDIO")))]
                 ELSE metadata
                 : found \in {foundLanguages(
                                Call("AllWordAltFrom",
                                     <<title, resetLastIndex(patterns.LANGUAGES) + 1,
                                       LANGUAGES_ALTS>>))} })
      [] step = 9 ->
           The({ extractFirstMatch(metadata, m, "releaseGroup", stripHyphen(valueToSet(m)))
                 : m \in {ExecReleaseGroup(title)} })
      [] step = 10 ->
           The({ IF sizeMatch.index # 0
                 THEN [metadata EXCEPT
                         !.rawSize = sizeMatch.text,
                         !.calculatedSize = IF ~TruthyNum(metadata.calculatedSize)
                                            THEN Call("parseSize", <<sizeMatch.text>>)
                                            ELSE metadata.calculatedSize]
                 ELSE metadata
                 : sizeMatch \in {ExecSize(title, resetLastIndex(patterns.SIZE))} })
      [] step = 11 ->
           [metadata EXCEPT !.cleanedTitle = Call("cleanTitle", <<title, metadata, originalSearchTitle>>)]
      [] step = 12 ->
           The({ IF ~TruthyNum(metadata.year) /\ originalSearchTitle # "" /\ m.index # 0
                 THEN [metadata EXCEPT !.year = parseInt(m.text)]
                 ELSE metadata
                 : m \in {ExecYear(originalSearchTitle, resetLastIndex(patterns.YEAR))} })

RECURSIVE parseFrom(_, _, _, _, _, _)
parseFrom(step, metadata, title, originalSearchTitle, torrentYearFromBitmagnet, patterns) ==
    IF step > 12 THEN metadata
    ELSE The({ parseFrom(step + 1, next, title, originalSearchTitle,
                         torrentYearFromBitmagnet, patterns)
               : next \in {parseStep(step, metadata, title, originalSearchTitle,
                                      torrentYearFromBitmagnet, patterns)} })

\* workTitle is the title throughout: no step rewrites it
parseTorrentTitle(title, originalSearchTitle, torrentYearFromBitmagnet, patterns) ==
    parseFrom(1, EmptyMetadata(title), title, originalSearchTitle, torrentYearFromBitmagnet,
              patterns)

\* the lastIndex of each global pattern when the call returns.  A loop of exec
\* ends on the exec that fails, and String.prototype.match on a global pattern
\* ends the same way: both leave 0.  YEAR is not touched when the year comes with
\* the call, and is used a second time, on the search title, when step 1 found none
patternsAfter(title, originalSearchTitle, torrentYearFromBitmagnet, patterns) ==
    [YEAR |->
        IF TruthyNum(torrentYearFromBitmagnet) THEN patterns.YEAR
        ELSE The({ IF m.index # 0 \/ originalSearchTitle = "" THEN lastIndexOf(m)
                   ELSE lastIndexOf(ExecYear(originalSearchTitle,
                                             resetLastIndex(patterns.YEAR)))
                   : m \in {ExecYear(title, resetLastIndex(patterns.YEAR))} }),
     SEASON_EPISODE |->
        lastIndexOf(ExecSeasonEpisode(title, resetLastIndex(patterns.SEASON_EPISODE))),
     RESOLUTION |->
        lastIndexOf(Call("ExecWordAlt", <<title, RESOLUTION_ALTS,
                                          resetLastIndex(patterns.RESOLUTION)>>)),
     QUALITY_SOURCE |->
        lastIndexOf(Call("ExecWordAlt", <<title, QUALITY_SOURCE_ALTS,
                                          resetLastIndex(patterns.QUALITY_SOURCE)>>)),
     VIDEO_CODEC |->
        lastIndexOf(Call("ExecWordAlt", <<title, VIDEO_CODEC_ALTS,
                                          resetLastIndex(patterns.VIDEO_CODEC)>>)),
     AUDIO_CODEC |-> 0,
     HDR |->
        The({ IF m.index # 0 THEN 0 ELSE lastIndexOf(m)
              : m \in {Call("ExecWordAlt", <<title, HDR_ALTS, resetLastIndex(patterns.HDR)>>)} }),
     THREE_D |->
        lastIndexOf(Call("ExecWordAlt", <<title, THREE_D_ALTS,
                                          resetLastIndex(patterns.THREE_D)>>)),
     LANGUAGES |-> 0,
     SIZE |-> lastIndexOf(ExecSize(title, resetLastIndex(patterns.SIZE)))]

\* the patterns as the constants module creates them
LoadedPatterns ==
    [YEAR |-> 0, SEASON_EPISODE |-> 0, RESOLUTION |-> 0, QUALITY_SOURCE |-> 0,
     VIDEO_CODEC |-> 0, AUDIO_CODEC |-> 0, HDR |-> 0, THREE_D |-> 0, LANGUAGES |-> 0,
     SIZE |-> 0]

-----------------------------------------------------------------------------
(* qualityClassifier: VideoQualityRank, the rank table and getQualityRank  *)

UHD_BLURAY   == 10
BLURAY_1080P == 9
WEBDL_2160P  == 8
WEBDL_1080P  == 7
BLURAY_720P  == 6
WEBDL_720P   == 5
HDTV_1080P   == 4
DVD_asHdtv1080p == HDTV_1080P
DVD          == 3
HDTV_720P    == 2
SD           == 1
LOW_QUALITY  == 0
UNKNOWN      == -1

\* a Record<string, VideoQualityRank> as a set of <<key, rank>> pairs
QUALITY_RANK_MAP ==
    { <<"2160P BLURAY", UHD_BLURAY>>, <<"4K BLURAY", UHD_BLURAY>>,
      <<"2160P REMUX", UHD_BLURAY>>, <<"4K REMUX", UHD_BLURAY>>,
      <<"2160P WEB-DL", WEBDL_2160P>>, <<"2160P WEBDL", WEBDL_2160P>>,
      <<"4K WEB-DL", WEBDL_2160P>>, <<"4K WEBDL", WEBDL_2160P>>,
      <<"2160P WEB", WEBDL_2160P>>, <<"4K WEB", WEBDL_2160P>>,
      <<"2160P WEBRIP", WEBDL_2160P>>, <<"4K WEBRIP", WEBDL_2160P>>,
      <<"1080P BLURAY", BLURAY_1080P>>, <<"1080P REMUX", BLURAY_1080P>>,
      <<"1080P WEB-DL", WEBDL_1080P>>, <<"1080P WEBDL", WEBDL_1080P>>,
      <<"1080P WEB", WEBDL_1080P>>, <<"1080P WEBRIP", WEBDL_1080P>>,
      <<"1080P BDRIP", BLURAY_1080P>>, <<"1080P BRRIP", BLURAY_1080P>>,
      <<"1080P HDTV", HDTV_1080P>>,
      <<"720P BLURAY", BLURAY_720P>>, <<"720P REMUX", BLURAY_720P>>,
      <<"720P WEB-DL", WEBDL_720P>>, <<"720P WEBDL", WEBDL_720P>>,
      <<"720P WEB", WEBDL_720P>>, <<"720P WEBRIP", WEBDL_720P>>,
      <<"720P BDRIP", BLURAY_720P>>, <<"720P BRRIP", BLURAY_720P>>,
      <<"720P HDTV", HDTV_720P>>,
      <<"DVDRIP", DVD>>, <<"DVD-R", DVD>>,
      <<"480P DVD", DVD>>, <<"576P DVD", DVD>>,
      <<"480P BDRIP", DVD>>, <<"576P BDRIP", DVD>>,
      <<"480P", SD>>, <<"576P", SD>>, <<"SD", SD>>,
      <<"DVDSCR", LOW_QUALITY>>, <<"SCREENER", LOW_QUALITY>>, <<"SCR", LOW_QUALITY>>,
      <<"TS", LOW_QUALITY>>, <<"TELESYNC", LOW_QUALITY>>,
      <<"TC", LOW_QUALITY>>, <<"TELECINE", LOW_QUALITY>>,
      <<"CAM", LOW_QUALITY>>, <<"CAMRIP", LOW_QUALITY>>,
      <<"BLURAY", BLURAY_1080P>>,
      <<"WEB-DL", WEBDL_1080P>>, <<"WEBDL", WEBDL_1080P>>,
      <<"WEB", WEBDL_1080P>>, <<"WEBRIP", WEBDL_1080P>>,
      <<"BDRIP", BLURAY_720P>>, <<"BRRIP", BLURAY_720P>>,
      <<"HDTV", HDTV_720P>>,
      <<"UNKNOWN", UNKNOWN>> }

LOW_QUALITY_TERMS ==
    <<"CAM", "CAMRIP", "TS", "TELESYNC", "TC", "TELECINE", "SCR", "SCREENER", "DVDSCR", "PDVD">>

LOW_QUALITY_RESOLUTIONS == <<"480P", "360P", "SD">>

\* Array.prototype.includes / some
InSeq(xs, x) == \E k \in 1..Len(xs) : xs[k] = x

\* if (QUALITY_RANK_MAP[key]): the key is present and its rank is not 0
RankTruthy(key) == \E p \in QUALITY_RANK_MAP : p[1] = key /\ p[2] # 0
RankOf(key) == (CHOOSE p \in QUALITY_RANK_MAP : p[1] = key)[2]

\* source.replace(/-/g, '')
RemoveHyphens(source) == Call("ReplaceAll", <<source, [kind |-> "hyphen", term |-> ""], "">>)

FirstPart_wholeSource(source) == source

\* source.split(/[\s-]/)[0]
FirstPart(source) ==
    LET cuts == {i \in 1..Len(source) : Ch(source, i) \in {" ", "-"}}
    IN  IF cuts = {} THEN source
        ELSE Sub(source, 1, (CHOOSE i \in cuts : \A j \in cuts : i <= j) - 1)

HasLowQualityTerm_wholeSource(source) == InSeq(LOW_QUALITY_TERMS, source)

\* source.includes of some low quality term
HasLowQualityTerm(source) ==
    \E k \in 1..Len(LOW_QUALITY_TERMS) : includes(source, toUpperCase(LOW_QUALITY_TERMS[k]))

\* the argument of a call that passes no record (parsedMeta?: ParsedMetadata)
undefinedMeta == [undefined |-> TRUE]
IsUndefined(parsedMeta) == "undefined" \in DOMAIN parsedMeta

\* getQualityRank from its second statement on: parsedMeta is a record
rankOfMetadata(parsedMeta) ==
    LET resolution  == toUpperCase(parsedMeta.resolution)
        source      == toUpperCase(parsedMeta.qualitySource)
        combinedKey == resolution \o " " \o RemoveHyphens(source)
        firstKey    == resolution \o " " \o FirstPart(source)
    IN  IF source # "" /\ HasLowQualityTerm(source) THEN LOW_QUALITY
        ELSE IF resolution # "" /\ InSeq(LOW_QUALITY_RESOLUTIONS, resolution)
             THEN IF source # "" /\ (includes(source, "DVD") \/ includes(source, "BDRIP")
                                       \/ includes(source, "BRRIP"))
                  THEN DVD ELSE SD
        ELSE IF resolution # "" /\ source # "" /\ RankTruthy(combinedKey) THEN RankOf(combinedKey)
        ELSE IF resolution # "" /\ source # "" /\ RankTruthy(firstKey) THEN RankOf(firstKey)
        ELSE IF source # "" /\ RankTruthy(RemoveHyphens(source)) THEN RankOf(RemoveHyphens(source))
        ELSE IF resolution # "" /\ RankTruthy(resolution) THEN RankOf(resolution)
        ELSE UNKNOWN

getQualityRank_missingAsSd(parsedMeta) ==
    IF IsUndefined(parsedMeta) THEN SD ELSE rankOfMetadata(parsedMeta)

\* if (!parsedMeta) return VideoQualityRank.UNKNOWN
getQualityRank(parsedMeta) ==
    IF IsUndefined(parsedMeta) THEN UNKNOWN ELSE rankOfMetadata(parsedMeta)

-----------------------------------------------------------------------------
(* standardization: standardizeTitle and standardizeYear                   *)

\* s.replace(/\s+TAIL$/, ''), where tails holds the indices p such that s from
\* index p to its end reads TAIL: the match starts at the white space that leads
\* to p
StripTrailing(s, tails) ==
    The({ IF ps = {} THEN s
          ELSE trimEnd(Sub(s, 1, (CHOOSE q \in ps : \A q2 \in ps : q <= q2) - 1))
          : ps \in {{p \in tails : p >= 2 /\ Ch(s, p - 1) = " "}} })

\* (?:19[7-9]\d|20[0-2]\d)$
IsYearTail(s, p) ==
    /\ p + 3 = Len(s)
    /\ \/ Sub(s, p, p + 1) = "19" /\ Ch(s, p + 2) \in {"7", "8", "9"}
       \/ Sub(s, p, p + 1) = "20" /\ Ch(s, p + 2) \in {"0", "1", "2"}
    /\ IsDigit(Ch(s, p + 3))

\* [Ss]\d{1,2}[Ee]\d{1,3}(?:-[Ee]?\d{1,3})?$
IsEpisodeTail(s, p) ==
    LET r  == DigitRun(s, p + 1)
        e  == p + 1 + r
        r2 == DigitRun(s, e + 1)
        t  == e + 1 + r2
        d3 == IF toUpperCase(Ch(s, t + 1)) = "E" THEN t + 2 ELSE t + 1
        r3 == DigitRun(s, d3)
    IN  /\ toUpperCase(Ch(s, p)) = "S" /\ r \in 1..2
        /\ toUpperCase(Ch(s, e)) = "E" /\ r2 \in 1..3
        /\ \/ t = Len(s) + 1
           \/ Ch(s, t) = "-" /\ r3 \in 1..3 /\ d3 + r3 = Len(s) + 1

\* Season\s+\d{1,2}$ with flag i
IsSeasonTail(s, p) ==
    LET n == RunOf(s, p + 6, {" "})
        r == DigitRun(s, p + 6 + n)
    IN  MatchLitAt(s, p, "Season") /\ n >= 1 /\ r \in 1..2 /\ p + 6 + n + r = Len(s) + 1

\* the three replacements of standardizeTitle at the end of the title
stripTrailingYear(s) ==
    The({ StripTrailing(str, {p \in 1..Len(str) : IsYearTail(str, p)}) : str \in {s} })
stripTrailingEpisode(s) ==
    The({ StripTrailing(str, {p \in 1..Len(str) : IsEpisodeTail(str, p)}) : str \in {s} })
stripTrailingSeason(s) ==
    The({ StripTrailing(str, {p \in 1..Len(str) : IsSeasonTail(str, p)}) : str \in {s} })

commonTags ==
    <<"EXTENDED", "UNCUT", "DIRECTORS CUT", "REMASTERED", "SPECIAL EDITION", "THEATRICAL",
      "UNRATED", "PROPER", "REPACK", "LIMITED", "COMPLETE", "ULTIMATE", "FINAL CUT",
      "ANNIVERSARY EDITION", "COLLECTORS EDITION">>

RECURSIVE RemoveTags(_, _)
RemoveTags(standardized, tags) ==
    IF tags = <<>> THEN standardized
    ELSE The({ RemoveTags(next, Tail(tags))
               : next \in {Call("ReplaceAll",
                                <<standardized, [kind |-> "tag", term |-> Head(tags)], "">>)} })

\* the replacements of standardizeTitle up to the first trim
standardizeSeparators(title) ==
    trim(Call("ReplaceAll", <<Call("ReplaceAll", <<Call("ReplaceAll", <<Call("ReplaceAll", <<Call("ReplaceAll", <<title,
        [kind |-> "spaced", term |-> "&"], " and ">>),
        [kind |-> "spaced", term |-> "and"], " and ">>),
        [kind |-> "punct", term |-> ""], " ">>),
        [kind |-> "hyphen", term |-> ""], " ">>),
        [kind |-> "spaces", term |-> ""], " ">>))

standardizeTitle(title) ==
    IF title = "" THEN ""
    ELSE trim(RemoveTags(
                stripTrailingSeason(
                  stripTrailingEpisode(
                    stripTrailingYear(standardizeSeparators(title)))),
                commonTags))

\* new Date().getFullYear()
getFullYear == 2026

\* (?<!\d)(?:1[89]\d{2}|20\d{2})(?!\d) at index i
IsYearAt(s, i) ==
    /\ ~IsDigit(Ch(s, i - 1))
    /\ \/ Ch(s, i) = "1" /\ Ch(s, i + 1) \in {"8", "9"}
       \/ Sub(s, i, i + 1) = "20"
    /\ DigitRun(s, i) = 4

\* standardizeYear of a string ("" stands for undefined)
standardizeYear(yearInput) ==
    LET yearString == trim(yearInput)
        hits == {i \in 1..Len(yearString) : IsYearAt(yearString, i)}
    IN  IF hits = {} THEN undefinedNum
        ELSE LET i == CHOOSE j \in hits : \A j2 \in hits : j <= j2
                 year == parseInt(Sub(yearString, i, i + 3))
             IN  IF year >= 1880 /\ year <= getFullYear + 5 THEN year ELSE undefinedNum

-----------------------------------------------------------------------------
(* addonService: the steps of processStreamRequest                         *)

\* sePattern.test(episodeInfo):
\* [Ss](<season padded>|<season>)[Ee](<episode padded>|<episode>), flag i
sePatternTest(episodeInfo, season, episode) ==
    \E i \in 1..Len(episodeInfo) :
      \E sAlt \in {padStart2(numToString(season)), numToString(season)} :
        \E eAlt \in {padStart2(numToString(episode)), numToString(episode)} :
          /\ MatchLitAt(episodeInfo, i, "S")
          /\ MatchLitAt(episodeInfo, i + 1, sAlt)
          /\ MatchLitAt(episodeInfo, i + 1 + Len(sAlt), "E")
          /\ MatchLitAt(episodeInfo, i + 2 + Len(sAlt), eAlt)

\* seasonPackPattern.test(episodeInfo):
\* [Ss](<season padded>|<season>)(?!\d|([Ee])), flag i
seasonPackPatternTest(episodeInfo, season) ==
    \E i \in 1..Len(episodeInfo) :
      \E sAlt \in {padStart2(numToString(season)), numToString(season)} :
        /\ MatchLitAt(episodeInfo, i, "S")
        /\ MatchLitAt(episodeInfo, i + 1, sAlt)
        /\ LET c == Ch(episodeInfo, i + 1 + Len(sAlt))
           IN  ~IsDigit(c) /\ toUpperCase(c) # "E"

\* the mapper's "return null": FALSE when the torrent is dropped by the
\* season/episode check
episodeMatches(parsedMeta, type, season, episode) ==
    IF type = "series" /\ TruthyNum(season) /\ TruthyNum(episode)
    THEN IF parsedMeta.episodeInfo # ""
         THEN sePatternTest(parsedMeta.episodeInfo, season, episode)
              \/ seasonPackPatternTest(parsedMeta.episodeInfo, season)
         ELSE TRUE
    ELSE TRUE

\* searchTitle: the id stands in for a missing or generic name
searchTitleOf(req) ==
    IF req.name = "" \/ startsWith(req.name, "Media for ID") THEN req.id ELSE req.name

standardizedTitleOf(req) ==
    IF searchTitleOf(req) # "" THEN Call("standardizeTitle", <<searchTitleOf(req)>>) ELSE ""

standardizedYearOf(req) ==
    IF TruthyNum(req.year) THEN Call("standardizeYear", <<numToString(req.year)>>) ELSE undefinedNum

\* queryPromises: title and year, title alone, and the id when the title is the id
queriesFor(title, year, id) ==
    (IF title # "" /\ TruthyNum(year) THEN <<[query |-> title, year |-> year]>> ELSE <<>>)
    \o (IF title # "" THEN <<[query |-> title, year |-> undefinedNum]>> ELSE <<>>)
    \o (IF title = id THEN <<[query |-> id, year |-> undefinedNum]>> ELSE <<>>)

queriesOf(req) == queriesFor(standardizedTitleOf(req), standardizedYearOf(req), req.id)

\* allResultsNested.flat()
RECURSIVE flat(_)
flat(nested) == IF nested = <<>> THEN <<>> ELSE Head(nested) \o flat(Tail(nested))

\* Array.from(new Map(rawResults.map(item => [item.infoHash, item])).values()):
\* a key keeps the place of its first record and the value of its last one
dedupe(raw) ==
    LET firstAt(k) == \A j \in 1..(k - 1) : raw[j].infoHash # raw[k].infoHash
        lastOf(k)  == CHOOSE j \in 1..Len(raw) :
                        /\ raw[j].infoHash = raw[k].infoHash
                        /\ \A j2 \in (j + 1)..Len(raw) : raw[j2].infoHash # raw[k].infoHash
        keys == SelectSeq([k \in 1..Len(raw) |-> k], firstAt)
    IN  [n \in 1..Len(keys) |-> raw[lastOf(keys[n])]]


\* the year handed to the parser: the torrent's release year, else the request's
contextYearForParsing(torrent, standardizedYear) ==
    OrNum(IF torrent.releaseDate # "" THEN Call("standardizeYear", <<torrent.releaseDate>>)
          ELSE undefinedNum,
          standardizedYear)

toStream_textFirst(torrent, parsedMeta) ==
    LET seeders == OrNum(torrent.seeders, OrNum(parsedMeta.seeders, 0))
        size    == OrNum(torrent.size, parsedMeta.calculatedSize)
    IN  [infoHash   |-> torrent.infoHash,
         parsedMeta |-> [parsedMeta EXCEPT
                           !.resolution     = OrStr(parsedMeta.resolution, torrent.videoResolution),
                           !.videoCodec     = OrStr(parsedMeta.videoCodec, torrent.videoCodec),
                           !.qualitySource  = OrStr(parsedMeta.qualitySource, torrent.source),
                           !.seeders        = seeders,
                           !.calculatedSize = size],
         seeders    |-> seeders,
         size       |-> size]

\* the StremioStream the mapper builds for a torrent that passed the
\* season/episode check: the parsed metadata enriched with the index's own fields
toStream(torrent, parsedMeta) ==
    LET seeders == OrNum(torrent.seeders, OrNum(parsedMeta.seeders, 0))
        size    == OrNum(torrent.size, parsedMeta.calculatedSize)
    IN  [infoHash   |-> torrent.infoHash,
         parsedMeta |-> [parsedMeta EXCEPT
                           !.resolution     = OrStr(torrent.videoResolution, parsedMeta.resolution),
                           !.videoCodec     = OrStr(torrent.videoCodec, parsedMeta.videoCodec),
                           !.qualitySource  = OrStr(torrent.source, parsedMeta.qualitySource),
                           !.seeders        = seeders,
                           !.calculatedSize = size],
         seeders    |-> seeders,
         size       |-> size]

\* a minimum-seeders step that also drops the streams exactly at the threshold
minSeedersFilter_strict(streams, cfg) ==
    IF cfg.minSeeders > 0
    THEN SelectSeq(streams, LAMBDA stream : OrNum(stream.seeders, 0) > cfg.minSeeders)
    ELSE streams

\* the minimum-seeders step
minSeedersFilter(streams, cfg) ==
    IF cfg.minSeeders > 0
    THEN SelectSeq(streams, LAMBDA stream : OrNum(stream.seeders, 0) >= cfg.minSeeders)
    ELSE streams

\* a predicate that drops every stream of a low resolution, DVD or not
keepsQuality_noDvdException(stream) ==
    LET rank        == Call("getQualityRank", <<stream.parsedMeta>>)
        sourceUpper == toUpperCase(stream.parsedMeta.qualitySource)
        resUpper    == toUpperCase(stream.parsedMeta.resolution)
    IN  /\ ~(rank = LOW_QUALITY \/ rank = UNKNOWN)
        /\ ~(sourceUpper # "" /\ \E k \in 1..Len(LOW_QUALITY_TERMS) :
                                    includes(sourceUpper, LOW_QUALITY_TERMS[k]))
        /\ ~(resUpper # "" /\ InSeq(LOW_QUALITY_RESOLUTIONS, resUpper))

\* the predicate of the low quality filter: TRUE when the stream stays
keepsQuality(stream) ==
    LET rank        == Call("getQualityRank", <<stream.parsedMeta>>)
        sourceUpper == toUpperCase(stream.parsedMeta.qualitySource)
        resUpper    == toUpperCase(stream.parsedMeta.resolution)
    IN  /\ ~(rank = LOW_QUALITY \/ rank = UNKNOWN)
        /\ ~(sourceUpper # "" /\ \E k \in 1..Len(LOW_QUALITY_TERMS) :
                                    includes(sourceUpper, LOW_QUALITY_TERMS[k]))
        /\ ~(resUpper # "" /\ InSeq(LOW_QUALITY_RESOLUTIONS, resUpper) /\ rank < DVD)

hasHighQuality(streams) ==
    \E k \in 1..Len(streams) : Call("getQualityRank", <<streams[k].parsedMeta>>) >= HDTV_720P

\* a low quality step that does not ask whether a better stream exists
lowQualityFilter_ungated(streams, cfg) ==
    IF cfg.filterLowQuality THEN SelectSeq(streams, keepsQuality) ELSE streams

\* the low quality step
lowQualityFilter(streams, cfg) ==
    IF cfg.filterLowQuality /\ Len(streams) > 0 /\ hasHighQuality(streams)
    THEN SelectSeq(streams, keepsQuality)
    ELSE streams

\* Array.prototype.indexOf, with 0 for the first place and -1 for none
indexOf(xs, x) ==
    IF InSeq(xs, x) THEN (CHOOSE k \in 1..Len(xs) : xs[k] = x /\ \A j \in 1..(k - 1) : xs[j] # x) - 1
    ELSE -1

compareSeeders(a, b) == OrNum(b.seeders, 0) - OrNum(a.seeders, 0)

\* a language comparison without the exact step
comparePreferredLanguage_substringOnly(a, b, cfg) ==
    LET prefLangUpper == toUpperCase(cfg.preferredLanguage)
        aHasPrefLang == includes(toUpperCase(joinSpace(a.parsedMeta.languages)), prefLangUpper)
        bHasPrefLang == includes(toUpperCase(joinSpace(b.parsedMeta.languages)), prefLangUpper)
    IN  IF aHasPrefLang /\ ~bHasPrefLang THEN -1
        ELSE IF ~aHasPrefLang /\ bHasPrefLang THEN 1
        ELSE 0

comparePreferredLanguage(a, b, cfg) ==
    LET langA == toUpperCase(joinSpace(a.parsedMeta.languages))
        langB == toUpperCase(joinSpace(b.parsedMeta.languages))
        prefLangUpper == toUpperCase(cfg.preferredLanguage)
        aHasExactPrefLang == InSeq(upperAll(a.parsedMeta.languages), prefLangUpper)
        bHasExactPrefLang == InSeq(upperAll(b.parsedMeta.languages), prefLangUpper)
        aHasPrefLang == includes(langA, prefLangUpper)
        bHasPrefLang == includes(langB, prefLangUpper)
    IN  IF aHasExactPrefLang /\ ~bHasExactPrefLang THEN -1
        ELSE IF ~aHasExactPrefLang /\ bHasExactPrefLang THEN 1
        ELSE IF aHasPrefLang /\ ~bHasPrefLang THEN -1
        ELSE IF ~aHasPrefLang /\ bHasPrefLang THEN 1
        ELSE 0

\* a quality comparison by rank alone
compareQuality_rankOnly(a, b, cfg) ==
    Call("getQualityRank", <<b.parsedMeta>>) - Call("getQualityRank", <<a.parsedMeta>>)

compareQuality(a, b, cfg) ==
    LET comparison == Call("getQualityRank", <<b.parsedMeta>>) - Call("getQualityRank", <<a.parsedMeta>>)
        resAUpper  == OrStr(toUpperCase(a.parsedMeta.resolution), "UNKNOWN")
        resBUpper  == OrStr(toUpperCase(b.parsedMeta.resolution), "UNKNOWN")
        resAIndex  == indexOf(cfg.qualitySortOrder, resAUpper)
        resBIndex  == indexOf(cfg.qualitySortOrder, resBUpper)
    IN  IF comparison # 0 THEN comparison
        ELSE IF resAIndex # -1 /\ resBIndex # -1 THEN resAIndex - resBIndex
        ELSE IF resAIndex # -1 THEN -1
        ELSE IF resBIndex # -1 THEN 1
        ELSE 0

compareSize(a, b) == OrNum(b.size, 0) - OrNum(a.size, 0)

\* one pass of the switch: a preference that is none of the four compares as 0
compareBy(preference, a, b, cfg) ==
    CASE preference = "seeders"           -> compareSeeders(a, b)
      [] preference = "preferredLanguage" -> comparePreferredLanguage(a, b, cfg)
      [] preference = "quality"           -> compareQuality(a, b, cfg)
      [] preference = "size"              -> compareSize(a, b)
      [] OTHER                            -> 0

\* a comparator in which the last preference that does not compare as 0 decides
RECURSIVE compareFrom_lastKeyWins(_, _, _, _)
compareFrom_lastKeyWins(prefs, a, b, cfg) ==
    IF prefs = <<>> THEN 0
    ELSE LET later == compareFrom_lastKeyWins(Tail(prefs), a, b, cfg)
         IN  IF later # 0 THEN later ELSE compareBy(Head(prefs), a, b, cfg)

\* the comparator handed to sort: the first preference that does not compare as 0
RECURSIVE compareFrom(_, _, _, _)
compareFrom(prefs, a, b, cfg) ==
    IF prefs = <<>> THEN 0
    ELSE LET comparison == compareBy(Head(prefs), a, b, cfg)
         IN  IF comparison # 0 THEN comparison ELSE compareFrom(Tail(prefs), a, b, cfg)

compare(a, b, cfg) == compareFrom(cfg.sortPreference, a, b, cfg)

\* a sort that is not stable: every element goes in front of the elements already
\* placed that compare as equal to it
RECURSIVE sort_unstable(_, _)
sort_unstable(streams, cfg) ==
    IF streams = <<>> THEN <<>>
    ELSE LET n      == Len(streams)
             placed == sort_unstable(SubSeq(streams, 1, n - 1), cfg)
             x      == streams[n]
             before == {k \in 1..Len(placed) : Call("compare", <<placed[k], x, cfg>>) < 0}
             at     == IF before = {} THEN 0 ELSE CHOOSE k \in before : \A j \in before : j <= k
         IN  SubSeq(placed, 1, at) \o <<x>> \o SubSeq(placed, at + 1, Len(placed))

\* Array.prototype.sort, which is stable: every element goes behind the elements
\* already placed that do not compare as greater than it
RECURSIVE sort(_, _)
sort(streams, cfg) ==
    IF streams = <<>> THEN <<>>
    ELSE LET n      == Len(streams)
             placed == Call("sort", <<SubSeq(streams, 1, n - 1), cfg>>)
             x      == streams[n]
             before == {k \in 1..Len(placed) : Call("compare", <<placed[k], x, cfg>>) <= 0}
             at     == IF before = {} THEN 0 ELSE CHOOSE k \in before : \A j \in before : j <= k
         IN  SubSeq(placed, 1, at) \o <<x>> \o SubSeq(placed, at + 1, Len(placed))

-----------------------------------------------------------------------------
(* Inputs: requests, configurations and index contents                     *)

\* the most raw records the queries of one request answer with, all together
MaxRaw == 3

\* addonConfig of server.ts with no environment variable set but the endpoint
DefaultConfig ==
    [bitmagnetPublicGraphQLEndpoint |-> "http://bitmagnet:3333/graphql",
     preferredLanguage |-> "ENG",
     qualitySortOrder  |-> <<"2160P", "1080P", "720P", "480P", "SD", "SCR", "CAM", "UNKNOWN">>,
     filterLowQuality  |-> TRUE,
     minSeeders        |-> 0,
     sortPreference    |-> <<"seeders", "preferredLanguage", "quality">>]

\* the request server.ts builds for /stream/:type/:id.json
SeriesRequest(season, episode) ==
    [type |-> "series", id |-> "tt1", name |-> "Media for ID tt1", year |-> undefinedNum,
     season |-> season, episode |-> episode]
MovieRequest ==
    [type |-> "movie", id |-> "tt2", name |-> "Media for ID tt2", year |-> undefinedNum,
     season |-> undefinedNum, episode |-> undefinedNum]
\* a request that carries the title and the year itself
NamedRequest ==
    [type |-> "movie", id |-> "tt3", name |-> "The Movie (2023)", year |-> 2023,
     season |-> undefinedNum, episode |-> undefinedNum]

\* a BitmagnetTorrent with none of the optional descriptive fields
Torrent(infoHash, title, seeders, size) ==
    [infoHash |-> infoHash, title |-> title, seeders |-> seeders, size |-> size,
     source |-> "", videoResolution |-> "", videoCodec |-> "", releaseDate |-> ""]

SeriesIndex ==
    << Torrent("h1", "Show.Name.S01E02.720p.WEB-DL.AAC", 5, 700),
       Torrent("h1", "Show.Name.S01.1080p.BluRay.x264-GRP", 9, 900),
       Torrent("h2", "Show.S05.720p.HDTV", 20, 500),
       Torrent("h3", "Show Name Complete 480p DVDRip", undefinedNum, undefinedNum) >>

QualityIndex ==
    << Torrent("m1", "Movie.2023.CAM.XViD", 50, 100),
       Torrent("m2", "Movie.2023.1080p.BluRay", 10, 4000),
       Torrent("m3", "Movie 2023 480p x264", 7, 300),
       [Torrent("m4", "Movie.2023.XViD-GRP", 7, 300) EXCEPT !.source = "DVDRip",
                                                            !.videoResolution = "480p"] >>

\* an episode of another season, a recording without episode information, and a
\* good copy that few share
PipelineIndex ==
    << Torrent("p1", "Show.S05.720p.HDTV", 30, 500),
       Torrent("p2", "Show.Complete.CAM", 30, 100),
       Torrent("p3", "Show.Name.1080p.BluRay", 3, 900) >>

LanguageIndex ==
    << Torrent("l1", "Movie.2023.720p.HDTV.x264", 5, 100),
       Torrent("l2", "Movie.2023.720p.HDTV.Tamil", 5, 100),
       Torrent("l3", "Movie.2023.720p.HDTV.VOSTFR", 5, 100),
       Torrent("l4", "Movie.2023.720p.HDTV.FR", 5, 100) >>

ResolutionIndex ==
    << Torrent("r1", "Movie.WEB.x264", 5, 100),
       Torrent("r2", "Movie.1080p.WEB.x264", 5, 100),
       Torrent("r3", "Movie.576p.WEB.x264", 5, 100),
       [Torrent("r1", "Movie.WEB.x264", 6, 100) EXCEPT !.releaseDate = "2021-05-01"] >>

SdIndex ==
    << Torrent("s1", "Movie SD x264", 5, 100),
       Torrent("s2", "Movie 480p x264", 5, undefinedNum),
       Torrent("s3", "Movie 480p x264 700MB", 0, undefinedNum) >>

\* records whose resolution, codec and source the index supplies itself
SuppliedIndex ==
    << [Torrent("v1", "Movie.720p.HDTV.x264", 5, 100) EXCEPT !.source = "BluRay",
                                                           !.videoResolution = "1080p",
                                                           !.videoCodec = "x265"],
       [Torrent("v2", "Movie.1080p.BluRay.x264", 5, 100) EXCEPT !.source = "CAM"],
       Torrent("v3", "Movie.1080p.WEB.x264", 5, 100) >>

\* the runs of the model: a request, the configuration it is served under and
\* what the index holds
Scenarios ==
    { [request |-> SeriesRequest(1, 2), config |-> DefaultConfig, upstream |-> SeriesIndex],
      [request |-> SeriesRequest(0, 1),
       config  |-> [DefaultConfig EXCEPT !.minSeeders = 5], upstream |-> SeriesIndex],
      [request |-> MovieRequest,
       config  |-> [DefaultConfig EXCEPT !.sortPreference = <<"quality", "size">>],
       upstream |-> QualityIndex],
      [request |-> MovieRequest,
       config  |-> [DefaultConfig EXCEPT !.minSeeders = 20,
                                         !.sortPreference = <<"size", "seeders">>],
       upstream |-> QualityIndex],
      [request |-> NamedRequest,
       config  |-> [DefaultConfig EXCEPT !.filterLowQuality = FALSE],
       upstream |-> QualityIndex],
      [request |-> MovieRequest,
       config  |-> [DefaultConfig EXCEPT !.preferredLanguage = "French",
                                         !.sortPreference = <<"preferredLanguage">>],
       upstream |-> LanguageIndex],
      [request |-> MovieRequest,
       config  |-> [DefaultConfig EXCEPT !.qualitySortOrder = <<"UNKNOWN", "1080P", "720P">>,
                                         !.sortPreference = <<"quality">>],
       upstream |-> ResolutionIndex],
      [request |-> MovieRequest,
       config  |-> [DefaultConfig EXCEPT !.sortPreference = <<"quality", "size", "newest">>],
       upstream |-> SdIndex],
      [request |-> MovieRequest,
       config  |-> [DefaultConfig EXCEPT !.sortPreference = <<"quality">>],
       upstream |-> SuppliedIndex],
      [request |-> SeriesRequest(1, 2),
       config  |-> [DefaultConfig EXCEPT !.minSeeders = 20],
       upstream |-> PipelineIndex] }

\* parseTorrentTitle as the mapper calls it for a torrent of a request, the global
\* patterns carrying patterns into the call
parsedMetaFrom(torrent, req, patterns) ==
    Call("parseTorrentTitle", <<torrent.title, standardizedTitleOf(req),
                      contextYearForParsing(torrent, standardizedYearOf(req)), patterns>>)

\* every use of a global pattern in the call is preceded by the reset of its
\* lastIndex, so what the patterns carry does not enter the result
parsedMetaOf(torrent, req) == parsedMetaFrom(torrent, req, LoadedPatterns)

\* the calls of the mapper that the scenarios can make, each evaluated once
ParseCalls ==
    UNION { {<<sc.upstream[k], sc.request>> : k \in 1..Len(sc.upstream)} : sc \in Scenarios }
parsedMetaTable == [call \in ParseCalls |-> parsedMetaOf(call[1], call[2])]

\* the global patterns after the mapper's call of parseTorrentTitle for a torrent
\* of a request
patternsAfterCall(torrent, req, patterns) ==
    Call("patternsAfter", <<torrent.title, standardizedTitleOf(req),
                            contextYearForParsing(torrent, standardizedYearOf(req)), patterns>>)

\* what the calls of the scenarios leave in the patterns, each evaluated once: a
\* call resets every pattern it uses, and YEAR is the one pattern that a call may
\* leave unused
patternsAfterTable == [call \in ParseCalls |-> patternsAfterCall(call[1], call[2], LoadedPatterns)]

\* the global patterns after the mapper has parsed the torrents, one after another
RECURSIVE patternsAfterAll(_, _, _)
patternsAfterAll(torrents, req, patterns) ==
    IF torrents = <<>> THEN patterns
    ELSE LET torrent == Head(torrents)
             left    == IF <<torrent, req>> \in ParseCalls
                        THEN patternsAfterTable[<<torrent, req>>]
                        ELSE patternsAfterCall(torrent, req, patterns)
             next    == IF TruthyNum(contextYearForParsing(torrent, standardizedYearOf(req)))
                        THEN [left EXCEPT !.YEAR = patterns.YEAR]
                        ELSE left
         IN  Call("patternsAfterAll", <<Tail(torrents), req, next>>)

\* uniqueResults.map(...).filter(stream => stream !== null)
RECURSIVE mapTorrents(_, _)
mapTorrents(torrents, req) ==
    IF torrents = <<>> THEN <<>>
    ELSE LET torrent    == Head(torrents)
             parsedMeta == parsedMetaTable[<<torrent, req>>]
         IN  (IF Call("episodeMatches", <<parsedMeta, req.type, req.season, req.episode>>)
              THEN <<toStream(torrent, parsedMeta)>> ELSE <<>>)
             \o Call("mapTorrents", <<Tail(torrents), req>>)

-----------------------------------------------------------------------------
(* The functions that are called through Call                              *)

Call(fn, args) ==
    CASE fn = "ReplaceAll" -> ReplaceAll(args[1], args[2], args[3])
      [] fn = "ExecWordAlt" -> ExecWordAlt(args[1], args[2], args[3])
      [] fn = "AllWordAltFrom" -> AllWordAltFrom(args[1], args[2], args[3])
      [] fn = "parseSize" -> parseSize(args[1])
      [] fn = "cleanTitle" -> cleanTitle(args[1], args[2], args[3])
      [] fn = "parseTorrentTitle" -> parseTorrentTitle(args[1], args[2], args[3], args[4])
      [] fn = "patternsAfter" -> patternsAfter(args[1], args[2], args[3], args[4])
      [] fn = "patternsAfterAll" -> patternsAfterAll(args[1], args[2], args[3])
      [] fn = "getQualityRank" -> getQualityRank(args[1])
      [] fn = "standardizeTitle" -> standardizeTitle(args[1])
      [] fn = "standardizeYear" -> standardizeYear(args[1])
      [] fn = "episodeMatches" -> episodeMatches(args[1], args[2], args[3], args[4])
      [] fn = "dedupe" -> dedupe(args[1])
      [] fn = "mapTorrents" -> mapTorrents(args[1], args[2])
      [] fn = "minSeedersFilter" -> minSeedersFilter(args[1], args[2])
      [] fn = "lowQualityFilter" -> lowQualityFilter(args[1], args[2])
      [] fn = "compare" -> compare(args[1], args[2], args[3])
      [] fn = "sort" -> sort(args[1], args[2])

-----------------------------------------------------------------------------
(* The request pipeline as a state machine                                 *)

NoLog == [parsed |-> <<>>, seeded |-> <<>>, filtered |-> <<>>]

Idle ==
    /\ pc = "idle"
    /\ queryState = <<>> /\ queryResults = <<>>
    /\ rawResults = <<>> /\ uniqueResults = <<>> /\ parsedStreams = <<>>
    /\ log = NoLog
    /\ completed = <<>>

NoParse == parseIn = "" /\ parseOut = EmptyMetadata("") /\ matchOut = FALSE

NoRank == rankIn = EmptyMetadata("") /\ rankOut = UNKNOWN

NoCalls == REGEX_PATTERNS = LoadedPatterns /\ calls = <<>>

\* let cachedTrackers: TrackerSources = { http: [], udp: [], ws: [] }
NoTrackerSources == [http |-> <<>>, udp |-> <<>>, ws |-> <<>>]

NoReturn == [fn |-> "", value |-> NoTrackerSources, awaited |-> FALSE]
NoRefresh == [now |-> 0, outcome |-> "", by |-> "", value |-> NoTrackerSources]

\* the tracker service as its module declares it, before any call
NoTrackers ==
    /\ cachedTrackers = NoTrackerSources /\ lastFetched = 0 /\ isFetching = FALSE
    /\ clock = 0 /\ ticks = 0 /\ inFlight = <<>>
    /\ returned = NoReturn /\ lastRefresh = NoRefresh

Init ==
    /\ \E sc \in Scenarios :
         request = sc.request /\ config = sc.config /\ upstream = sc.upstream
    /\ Idle
    /\ NoParse
    /\ NoRank
    /\ NoTrackers
    /\ NoCalls

\* processStreamRequest up to Promise.all: the queries are issued, or the request
\* is answered with no stream when no title is left to search for
IssueQueries ==
    /\ pc = "idle"
    /\ LET queries == queriesOf(request)
       IN  IF standardizedTitleOf(request) = ""
           THEN pc' = "done" /\ UNCHANGED <<queryState, queryResults>>
           ELSE /\ pc' = "awaiting"
                /\ queryState' = [i \in 1..Len(queries) |-> "pending"]
                /\ queryResults' = [i \in 1..Len(queries) |-> <<>>]
    /\ UNCHANGED <<request, config, upstream, rawResults, uniqueResults, parsedStreams, log,
                   parseIn, parseOut, matchOut, completed, rankVars, trackerVars, regexVars>>

\* queryBitmagnet answers only when an endpoint is configured
endpointConfigured(cfg) ==
    /\ trim(cfg.bitmagnetPublicGraphQLEndpoint) # ""
    /\ cfg.bitmagnetPublicGraphQLEndpoint # "https://api.example.com/graphql"

\* the raw records resolved so far
resolvedCount == Len(flat(queryResults))

\* the index answers query i with some of its torrents, in some order
QuerySucceeds(i) ==
    /\ pc = "awaiting"
    /\ queryState[i] = "pending"
    /\ \E n \in 0..(MaxRaw - resolvedCount) :
         \E picks \in [1..n -> 1..Len(upstream)] :
           /\ endpointConfigured(config) \/ n = 0
           /\ queryResults' = [queryResults EXCEPT ![i] = [k \in 1..n |-> upstream[picks[k]]]]
    /\ queryState' = [queryState EXCEPT ![i] = "ok"]
    /\ completed' = Append(completed, i)
    /\ UNCHANGED <<request, config, upstream, pc, rawResults, uniqueResults, parsedStreams, log,
                   parseIn, parseOut, matchOut, rankVars, trackerVars, regexVars>>

QueryFails_aborts(i) ==
    /\ pc = "awaiting"
    /\ queryState[i] = "pending"
    /\ endpointConfigured(config)
    /\ queryState' = [queryState EXCEPT ![i] = "failed"]
    /\ queryResults' = [queryResults EXCEPT ![i] = <<>>]
    /\ completed' = Append(completed, i)
    /\ pc' = "done"
    /\ UNCHANGED <<request, config, upstream, rawResults, uniqueResults, parsedStreams, log,
                   parseIn, parseOut, matchOut, rankVars, trackerVars, regexVars>>

\* query i throws (network, HTTP or GraphQL error): fetchAndProcessBitmagnetResults
\* catches it and resolves to []
QueryFails(i) ==
    /\ pc = "awaiting"
    /\ queryState[i] = "pending"
    /\ endpointConfigured(config)
    /\ queryState' = [queryState EXCEPT ![i] = "failed"]
    /\ queryResults' = [queryResults EXCEPT ![i] = <<>>]
    /\ completed' = Append(completed, i)
    /\ UNCHANGED <<request, config, upstream, pc, rawResults, uniqueResults, parsedStreams, log,
                   parseIn, parseOut, matchOut, rankVars, trackerVars, regexVars>>

BuildResponse_completionOrder ==
    /\ pc = "awaiting"
    /\ \A i \in 1..Len(queryState) : queryState[i] # "pending"
    /\ rawResults' = flat([k \in 1..Len(completed) |-> queryResults[completed[k]]])
    /\ uniqueResults' = Call("dedupe", <<rawResults'>>)
    /\ \E parsed \in {Call("mapTorrents", <<uniqueResults', request>>)} :
         \E seeded \in {Call("minSeedersFilter", <<parsed, config>>)} :
           \E filtered \in {Call("lowQualityFilter", <<seeded, config>>)} :
             /\ log' = [parsed |-> parsed, seeded |-> seeded, filtered |-> filtered]
             /\ parsedStreams' = Call("sort", <<filtered, config>>)
    /\ REGEX_PATTERNS' = Call("patternsAfterAll", <<uniqueResults', request, REGEX_PATTERNS>>)
    /\ pc' = "done"
    /\ UNCHANGED <<request, config, upstream, queryState, queryResults,
                   parseIn, parseOut, matchOut, completed, rankVars, trackerVars, calls>>

BuildResponse_eliminationFirst ==
    /\ pc = "awaiting"
    /\ \A i \in 1..Len(queryState) : queryState[i] # "pending"
    /\ rawResults' = flat(queryResults)
    /\ uniqueResults' = Call("dedupe", <<rawResults'>>)
    /\ \E parsed \in {Call("mapTorrents", <<uniqueResults', request>>)} :
         \E filtered \in {Call("lowQualityFilter", <<parsed, config>>)} :
           \E seeded \in {Call("minSeedersFilter", <<filtered, config>>)} :
             /\ log' = [parsed |-> parsed, seeded |-> seeded, filtered |-> filtered]
             /\ parsedStreams' = Call("sort", <<seeded, config>>)
    /\ REGEX_PATTERNS' = Call("patternsAfterAll", <<uniqueResults', request, REGEX_PATTERNS>>)
    /\ pc' = "done"
    /\ UNCHANGED <<request, config, upstream, queryState, queryResults,
                   parseIn, parseOut, matchOut, completed, rankVars, trackerVars, calls>>

\* processStreamRequest after Promise.all: merge, de-duplicate, parse and match,
\* filter, sort
BuildResponse ==
    /\ pc = "awaiting"
    /\ \A i \in 1..Len(queryState) : queryState[i] # "pending"
    /\ rawResults' = flat(queryResults)
    /\ uniqueResults' = Call("dedupe", <<rawResults'>>)
    /\ \E parsed \in {Call("mapTorrents", <<uniqueResults', request>>)} :
         \E seeded \in {Call("minSeedersFilter", <<parsed, config>>)} :
           \E filtered \in {Call("lowQualityFilter", <<seeded, config>>)} :
             /\ log' = [parsed |-> parsed, seeded |-> seeded, filtered |-> filtered]
             /\ parsedStreams' = Call("sort", <<filtered, config>>)
    /\ REGEX_PATTERNS' = Call("patternsAfterAll", <<uniqueResults', request, REGEX_PATTERNS>>)
    /\ pc' = "done"
    /\ UNCHANGED <<request, config, upstream, queryState, queryResults,
                   parseIn, parseOut, matchOut, completed, rankVars, trackerVars, calls>>

Next ==
    \/ IssueQueries
    \/ \E i \in 1..Len(queryState) : QuerySucceeds(i)
    \/ \E i \in 1..Len(queryState) : QueryFails(i)
    \/ BuildResponse

Spec == Init /\ [][Next]_vars

-----------------------------------------------------------------------------
(* The mapper on one torrent: parseTorrentTitle, then the season/episode   *)
(* check                                                                   *)

ParseTitles ==
    { "Show.Name.S01E02.720p.WEB-DL.AAC", "Show.Name.S01E03.720p.WEB-DL.AAC",
      "Show.Name.S01E20.HDTV", "Show.Name.S1E2", "Show s01e02 x264", "Show.Name.E02.HDTV",
      "Show.Name.S01.1080p.BluRay.x264-GRP", "Show.S05.720p.HDTV", "Show.S00E01.HDTV",
      "Show Name Complete 480p DVDRip", "Show.Name.Part.2.HDTV", "Show.S011.HDTV",
      "Movie.Title.2023.1080p.BluRay.x264-GROUP", "Some_Movie_(2019)_[720p]_[BluRay]",
      "Movie.2023.CAM.XViD", "1080p", "2023", "CAM", "x", "   ", "Movie 2160p HDR10+ 700MB",
      "Movie.1999.720p.1080p.HDTV.BluRay.x264.HEVC.2005",
      "Other.Film.2019.720p.HDTV.HEVC-RLS" }

ParseRequests ==
    { SeriesRequest(1, 2), SeriesRequest(1, 3), SeriesRequest(0, 1), SeriesRequest(5, 0),
      SeriesRequest(undefinedNum, undefinedNum), MovieRequest, NamedRequest }

InitParse ==
    /\ request \in ParseRequests
    /\ parseIn \in ParseTitles
    /\ parseOut = EmptyMetadata("")
    /\ matchOut = FALSE
    /\ pc = "title"
    /\ config = DefaultConfig
    /\ upstream = <<>>
    /\ queryState = <<>> /\ queryResults = <<>>
    /\ rawResults = <<>> /\ uniqueResults = <<>> /\ parsedStreams = <<>>
    /\ log = NoLog
    /\ completed = <<>>
    /\ NoRank
    /\ NoTrackers
    /\ NoCalls

\* the first statements of the mapper's callback: the title is parsed
ExtractMetadata ==
    /\ pc = "title"
    /\ parseOut' = parsedMetaFrom(Torrent("h", parseIn, undefinedNum, undefinedNum), request,
                                  REGEX_PATTERNS)
    /\ REGEX_PATTERNS' = Call("patternsAfterAll",
                            <<<<Torrent("h", parseIn, undefinedNum, undefinedNum)>>, request,
                              REGEX_PATTERNS>>)
    /\ pc' = "parsed"
    /\ UNCHANGED <<request, config, upstream, queryState, queryResults, rawResults,
                   uniqueResults, parsedStreams, log, parseIn, matchOut, completed,
                   rankVars, trackerVars, calls>>

\* the season/episode check of the callback: matchOut is FALSE for "return null"
MatchEpisode ==
    /\ pc = "parsed"
    /\ matchOut' = Call("episodeMatches",
                        <<parseOut, request.type, request.season, request.episode>>)
    /\ pc' = "matched"
    /\ UNCHANGED <<request, config, upstream, queryState, queryResults, rawResults,
                   uniqueResults, parsedStreams, log, parseIn, parseOut, completed,
                   rankVars, trackerVars, regexVars>>

NextParse == ExtractMetadata \/ MatchEpisode

SpecParse == InitParse /\ [][NextParse]_vars

-----------------------------------------------------------------------------
(* The quality classifier on one record: getQualityRank                    *)

RankResolutions ==
    { "", "2160P", "4K", "1080P", "720P", "576P", "480P", "360P", "SD", "1080p", "XYZ" }

RankSources ==
    { "", "BluRay", "BLURAY", "Blu-Ray", "WEB-DL", "WEBDL", "WEB", "WEBRIP", "WEB-Rip",
      "BDRIP", "BRRIP", "HDTV", "DVDRIP", "DVD-R", "DVD", "CAM", "TS", "TELESYNC", "TC",
      "TELECINE", "SCR", "SCREENER", "DVDSCR", "HDCAM", "Cam", "PDVD", "BluRay REMUX", "REMUX",
      "HDRip", "UNKNOWN", "foo" }

\* the arguments of getQualityRank: no record, or a record with a resolution and a
\* source, either of which may be missing
RankInputs ==
    {undefinedMeta}
    \cup { [EmptyMetadata("") EXCEPT !.resolution = r, !.qualitySource = q] :
             r \in RankResolutions, q \in RankSources }

InitRank ==
    /\ rankIn \in RankInputs
    /\ rankOut = UNKNOWN
    /\ pc = "rank"
    /\ request = MovieRequest /\ config = DefaultConfig /\ upstream = <<>>
    /\ queryState = <<>> /\ queryResults = <<>>
    /\ rawResults = <<>> /\ uniqueResults = <<>> /\ parsedStreams = <<>>
    /\ log = NoLog
    /\ completed = <<>>
    /\ NoParse
    /\ NoTrackers
    /\ NoCalls

\* one call of getQualityRank
Classify ==
    /\ pc = "rank"
    /\ rankOut' = Call("getQualityRank", <<rankIn>>)
    /\ pc' = "ranked"
    /\ UNCHANGED <<request, config, upstream, queryState, queryResults, rawResults,
                   uniqueResults, parsedStreams, log, parseIn, parseOut, matchOut,
                   completed, rankIn, trackerVars, regexVars>>

NextRank == Classify

SpecRank == InitRank /\ [][NextRank]_vars

-----------------------------------------------------------------------------
(* De-duplication, the parser's episode information and the cleaned title  *)

\* C1: once the answers of the queries are merged, every infoHash among the raw
\* records has exactly one candidate among the unique results, and that candidate
\* carries the title, seeders, size and source of the first raw record with that
\* infoHash.  The code keeps the place of the first record but the data of the
\* last one, so this fails.
C1_FirstSeenRecordKept ==
    pc = "done" =>
      \A k \in 1..Len(rawResults) :
        /\ Cardinality({u \in 1..Len(uniqueResults) :
                          uniqueResults[u].infoHash = rawResults[k].infoHash}) = 1
        /\ (\A j \in 1..(k - 1) : rawResults[j].infoHash # rawResults[k].infoHash)
             => \A u \in 1..Len(uniqueResults) :
                  uniqueResults[u].infoHash = rawResults[k].infoHash
                    => /\ uniqueResults[u].title = rawResults[k].title
                       /\ uniqueResults[u].seeders = rawResults[k].seeders
                       /\ uniqueResults[u].size = rawResults[k].size
                       /\ uniqueResults[u].source = rawResults[k].source

\* C2: "Show.Name.S01E02.720p.WEB-DL.AAC", parsed and then matched, is accepted
\* for season 1 episode 2 and rejected for season 1 episode 3.  The parser keeps
\* the first group of the match ("01") as episodeInfo, which no pattern of the
\* matcher accepts, so the title is rejected for episode 2 as well.
C2_EpisodeOfTitleMatched ==
    (/\ pc = "matched"
     /\ parseIn = "Show.Name.S01E02.720p.WEB-DL.AAC"
     /\ request.type = "series" /\ request.season = 1)
      => /\ request.episode = 2 => matchOut
         /\ request.episode = 3 => ~matchOut

\* C3: for a series request that supplies a season and an episode, both >= 0, a
\* torrent without episodeInfo is kept, and one with episodeInfo is kept exactly
\* when episodeInfo matches S<season>E<episode> (padded or not) or S<season> not
\* followed by a digit or an episode marker; for a movie, or with season or
\* episode not supplied, nothing is dropped.  The code takes a season or an
\* episode of 0 for not supplied, so this fails.
C3_MatcherDecides ==
    pc = "matched" =>
      IF request.type = "series" /\ request.season >= 0 /\ request.episode >= 0
      THEN matchOut <=>
             \/ parseOut.episodeInfo = ""
             \/ sePatternTest(parseOut.episodeInfo, request.season, request.episode)
             \/ seasonPackPatternTest(parseOut.episodeInfo, request.season)
      ELSE matchOut

\* C4: the cleaned title of a title that is not empty is not empty.  The fallback
\* is taken only for titles of more than ten characters (or a cleaned title of
\* four digits), so a short title that is all metadata is cleaned to "".
C4_CleanedTitleNotEmpty ==
    (pc # "title" /\ parseIn # "") => parseOut.cleanedTitle # ""

-----------------------------------------------------------------------------
(* The filters                                                             *)

\* C5: with filterLowQuality on, the low quality step is active exactly when some
\* stream left by the minimum-seeders step has rank >= HDTV_720P.  When active it
\* removes the streams of rank LOW_QUALITY or UNKNOWN and the streams of
\* resolution 480P, 360P or SD with rank below DVD, and keeps every other stream;
\* when inactive, or with the toggle off, it removes nothing.
C5_LowQualityElimination ==
    pc = "done" =>
      \A ranks \in {[k \in 1..Len(log.seeded) |->
                      Call("getQualityRank", <<log.seeded[k].parsedMeta>>)]} :
        LET active == /\ config.filterLowQuality
                      /\ \E k \in 1..Len(ranks) : ranks[k] >= HDTV_720P
            removed(k) ==
                \/ ranks[k] = LOW_QUALITY
                \/ ranks[k] = UNKNOWN
                \/ /\ toUpperCase(log.seeded[k].parsedMeta.resolution) \in {"480P", "360P", "SD"}
                   /\ ranks[k] < DVD
            keptAt == SelectSeq([k \in 1..Len(ranks) |-> k], LAMBDA k : ~removed(k))
        IN  log.filtered = IF active THEN [n \in 1..Len(keptAt) |-> log.seeded[keptAt[n]]]
                           ELSE log.seeded

\* a CAM release is removed beside a 1080p BluRay release, which is kept
C5_CamRemovedBesideBluRay ==
    /\ pc = "done"
    /\ config.filterLowQuality
    /\ \E k \in 1..Len(log.seeded) :
         /\ log.seeded[k].parsedMeta.originalTitle = "Movie.2023.CAM.XViD"
         /\ \A n \in 1..Len(log.filtered) : log.filtered[n] # log.seeded[k]
         /\ \A n \in 1..Len(parsedStreams) : parsedStreams[n] # log.seeded[k]
    /\ \E k \in 1..Len(log.seeded) :
         /\ log.seeded[k].parsedMeta.originalTitle = "Movie.2023.1080p.BluRay"
         /\ \E n \in 1..Len(parsedStreams) : parsedStreams[n] = log.seeded[k]

\* C6: with minSeeders > 0 the minimum-seeders step keeps exactly the streams
\* with seeders >= minSeeders, a stream without seeders counting as 0, and every
\* stream of the response has seeders >= minSeeders; with minSeeders = 0 the step
\* removes nothing.
C6_MinimumSeeders ==
    pc = "done" =>
      LET seedersOf(stream) == IF stream.seeders = undefinedNum THEN 0 ELSE stream.seeders
      IN  /\ log.seeded = IF config.minSeeders > 0
                          THEN SelectSeq(log.parsed,
                                         LAMBDA stream : seedersOf(stream) >= config.minSeeders)
                          ELSE log.parsed
          /\ config.minSeeders > 0 =>
               \A n \in 1..Len(parsedStreams) : seedersOf(parsedStreams[n]) >= config.minSeeders

\* a stream exactly at the threshold stays and the stream of a torrent without
\* seeders goes
C6_ThresholdApplied ==
    /\ pc = "done"
    /\ config.minSeeders > 0
    /\ \E k \in 1..Len(log.parsed) :
         /\ log.parsed[k].seeders = config.minSeeders
         /\ \E n \in 1..Len(parsedStreams) : parsedStreams[n] = log.parsed[k]
    /\ \E k \in 1..Len(log.parsed) :
         /\ log.parsed[k].seeders = 0
         /\ \E u \in 1..Len(uniqueResults) :
              /\ uniqueResults[u].infoHash = log.parsed[k].infoHash
              /\ uniqueResults[u].seeders = undefinedNum
         /\ \A n \in 1..Len(log.seeded) : log.seeded[n] # log.parsed[k]

-----------------------------------------------------------------------------
(* The order of the response                                               *)

\* C7: the response holds the streams the filters left, in the lexicographic
\* order over config.sortPreference: of two streams, the one placed first is ahead
\* under the first preference that does not compare them as equal.  Seeders and
\* size compare descending, a missing value as 0.
C7_LexicographicOrder ==
    pc = "done" =>
      /\ Len(parsedStreams) = Len(log.filtered)
      /\ {parsedStreams[n] : n \in 1..Len(parsedStreams)}
           = {log.filtered[n] : n \in 1..Len(log.filtered)}
      /\ \A i, j \in 1..Len(parsedStreams) :
           i < j =>
             LET a == parsedStreams[i]
                 b == parsedStreams[j]
                 num(v) == IF v = undefinedNum THEN 0 ELSE v
                 keyCompare(preference) ==
                     CASE preference = "seeders" -> num(b.seeders) - num(a.seeders)
                       [] preference = "size"    -> num(b.size) - num(a.size)
                       [] preference = "quality" -> compareQuality(a, b, config)
                       [] preference = "preferredLanguage" ->
                            comparePreferredLanguage(a, b, config)
                       [] OTHER -> 0
             IN  \A c \in {[k \in 1..Len(config.sortPreference) |->
                              keyCompare(config.sortPreference[k])]} :
                   \A d \in 1..Len(c) :
                     (c[d] # 0 /\ \A e \in 1..(d - 1) : c[e] = 0) => c[d] < 0

\* two streams that the first preference compares as equal are put in order by
\* the second one, one of them without a size, against the order they came in
C7_SecondKeyDecides ==
    /\ pc = "done"
    /\ Len(config.sortPreference) >= 2
    /\ config.sortPreference[1] = "quality" /\ config.sortPreference[2] = "size"
    /\ \E i, j \in 1..Len(parsedStreams) :
         /\ i < j
         /\ compareQuality(parsedStreams[i], parsedStreams[j], config) = 0
         /\ parsedStreams[i].size > 0
         /\ parsedStreams[j].size = undefinedNum
         /\ \E m, n \in 1..Len(log.filtered) :
              m < n /\ log.filtered[m] = parsedStreams[j] /\ log.filtered[n] = parsedStreams[i]

\* C8: two streams that compare as equal under every preference of
\* config.sortPreference are in the response in the order their torrents have
\* among the unique results.
C8_StableSort ==
    pc = "done" =>
      \A i, j \in 1..Len(parsedStreams) :
        (/\ i < j
         /\ \A k \in 1..Len(config.sortPreference) :
              compareBy(config.sortPreference[k], parsedStreams[i], parsedStreams[j], config) = 0)
          => \E m, n \in 1..Len(uniqueResults) :
               /\ m < n
               /\ uniqueResults[m].infoHash = parsedStreams[i].infoHash
               /\ uniqueResults[n].infoHash = parsedStreams[j].infoHash

\* two streams that compare as equal are in the response, which is not in the
\* order the streams came in
C8_TieInReorderedResponse ==
    /\ pc = "done"
    /\ parsedStreams # log.filtered
    /\ \E i, j \in 1..Len(parsedStreams) :
         /\ i < j
         /\ parsedStreams[i] # parsedStreams[j]
         /\ \A k \in 1..Len(config.sortPreference) :
              compareBy(config.sortPreference[k], parsedStreams[i], parsedStreams[j], config) = 0

\* C9 as the specification states it: when quality is the first preference, of
\* two streams the one placed first has the rank that is not lower; at equal
\* rank, its resolution is not later in config.qualitySortOrder than the other's,
\* and it is not outside the list when the other's is in it.  A stream without a
\* resolution has no place in the list.
C9_QualityKeyAsStated ==
    (pc = "done" /\ config.sortPreference # <<>> /\ config.sortPreference[1] = "quality") =>
      \A i, j \in 1..Len(parsedStreams) :
        i < j =>
          \A ranks \in {<<Call("getQualityRank", <<parsedStreams[i].parsedMeta>>),
                          Call("getQualityRank", <<parsedStreams[j].parsedMeta>>)>>} :
            LET place(stream) ==
                    indexOf(config.qualitySortOrder, toUpperCase(stream.parsedMeta.resolution))
                placeA == place(parsedStreams[i])
                placeB == place(parsedStreams[j])
            IN  /\ ranks[1] >= ranks[2]
                /\ ranks[1] = ranks[2] =>
                     ~(placeB # -1 /\ (placeA = -1 \/ placeA > placeB))

\* C9, amended: as above, but a stream without a resolution has the place of the
\* entry "UNKNOWN" of config.qualitySortOrder.
C9_QualityKey ==
    (pc = "done" /\ config.sortPreference # <<>> /\ config.sortPreference[1] = "quality") =>
      \A i, j \in 1..Len(parsedStreams) :
        i < j =>
          \A ranks \in {<<Call("getQualityRank", <<parsedStreams[i].parsedMeta>>),
                          Call("getQualityRank", <<parsedStreams[j].parsedMeta>>)>>} :
            LET resolutionOf(stream) ==
                    IF stream.parsedMeta.resolution = "" THEN "UNKNOWN"
                    ELSE toUpperCase(stream.parsedMeta.resolution)
                place(stream) == indexOf(config.qualitySortOrder, resolutionOf(stream))
                placeA == place(parsedStreams[i])
                placeB == place(parsedStreams[j])
            IN  /\ ranks[1] >= ranks[2]
                /\ ranks[1] = ranks[2] =>
                     ~(placeB # -1 /\ (placeA = -1 \/ placeA > placeB))

\* at equal rank a stream without a resolution is ahead of a 1080P stream, which
\* came in first, and a stream whose resolution is not listed is behind both
C9_ResolutionOrderDecides ==
    /\ pc = "done"
    /\ config.sortPreference # <<>> /\ config.sortPreference[1] = "quality"
    /\ \E i, j, l \in 1..Len(parsedStreams) :
         /\ i < j /\ j < l
         /\ parsedStreams[i].parsedMeta.resolution = ""
         /\ parsedStreams[j].parsedMeta.resolution = "1080P"
         /\ indexOf(config.qualitySortOrder, parsedStreams[l].parsedMeta.resolution) = -1
         /\ parsedStreams[l].parsedMeta.resolution # ""
         /\ \A ranks \in {[n \in {i, j, l} |->
                            Call("getQualityRank", <<parsedStreams[n].parsedMeta>>)]} :
              ranks[i] = ranks[j] /\ ranks[i] = ranks[l]
         /\ \E m, n \in 1..Len(log.filtered) :
              m < n /\ log.filtered[m] = parsedStreams[j] /\ log.filtered[n] = parsedStreams[i]

\* C10: when preferredLanguage is the first preference, of two streams the one
\* placed first is not the only one without a language equal to the preferred
\* one, letter case aside; when both or neither have such a language, it is not
\* the only one whose languages, joined, lack the preferred one as a substring;
\* and two streams alike in both respects compare as equal under this key.
C10_PreferredLanguageKey ==
    (/\ pc = "done"
     /\ config.sortPreference # <<>>
     /\ config.sortPreference[1] = "preferredLanguage") =>
      \A i, j \in 1..Len(parsedStreams) :
        i < j =>
          LET preferred == toUpperCase(config.preferredLanguage)
              exact(stream) ==
                  \E k \in 1..Len(stream.parsedMeta.languages) :
                    toUpperCase(stream.parsedMeta.languages[k]) = preferred
              partial(stream) ==
                  includes(toUpperCase(joinSpace(stream.parsedMeta.languages)), preferred)
              a == parsedStreams[i]
              b == parsedStreams[j]
          IN  /\ ~(exact(b) /\ ~exact(a))
              /\ (exact(a) <=> exact(b)) => ~(partial(b) /\ ~partial(a))
              /\ ((exact(a) <=> exact(b)) /\ (partial(a) <=> partial(b)))
                   => /\ comparePreferredLanguage(a, b, config) = 0
                      /\ comparePreferredLanguage(b, a, config) = 0

\* a stream in the preferred language is ahead of one that only names it inside
\* a longer language, which came in first and is ahead of one in another language
C10_ExactBeforePartial ==
    /\ pc = "done"
    /\ config.sortPreference = <<"preferredLanguage">>
    /\ config.preferredLanguage = "French"
    /\ \E i, j, l \in 1..Len(parsedStreams) :
         /\ i < j /\ j < l
         /\ parsedStreams[i].parsedMeta.languages = <<"French">>
         /\ parsedStreams[j].parsedMeta.languages = <<"French (VOSTFR)">>
         /\ parsedStreams[l].parsedMeta.languages = <<"TAMIL">>
         /\ \E m, n \in 1..Len(log.filtered) :
              m < n /\ log.filtered[m] = parsedStreams[j] /\ log.filtered[n] = parsedStreams[i]

-----------------------------------------------------------------------------
(* The tracker service: fetchTrackers and getCachedTrackers.  clock is     *)
(* Date.now(); inFlight holds the refreshes that await the network, each   *)
(* with the time `now` it read and the caller that started it; returned is *)
(* what the last call that returned gave its caller, and whether the       *)
(* caller had to wait for the network; lastRefresh is the refresh that     *)
(* ended last, with the value its promise was resolved with.               *)

CACHE_DURATION == 6 * 60 * 60 * 1000
\* AbortSignal.timeout(15000)
FetchTimeout == 15000
\* Date.now() - lastFetched > 30000
EmptyCacheRetryDelay == 30000

MaxTicks == 3

\* Date.now() when the module is loaded: more than CACHE_DURATION after the epoch
StartTime == 2 * CACHE_DURATION

FALLBACK_TRACKERS ==
    << "udp://tracker.opentrackr.org:1337/announce",
       "udp://open.tracker.cl:1337/announce",
       "udp://tracker.internetwarriors.net:1337/announce",
       "udp://tracker.leechers-paradise.org:6969/announce",
       "udp://tracker.coppersurfer.tk:6969/announce",
       "udp://exodus.desync.com:6969/announce",
       "wss://tracker.openwebtorrent.com",
       "wss://tracker.btorrent.xyz",
       "udp://tracker.dler.org:6969/announce",
       "udp://public.popcorn-tracker.org:6969/announce" >>

\* cachedTrackers.http?.length || cachedTrackers.udp?.length || cachedTrackers.ws?.length
HasTrackers(sources) == sources.http # <<>> \/ sources.udp # <<>> \/ sources.ws # <<>>

\* new URL(trackerUrl).protocol in upper case, "" when the constructor throws: a URL
\* without a base needs a scheme, a letter followed by letters, digits, "+", "-" or
\* ".", and then ":" (the lists of the model give every special scheme a host)
UrlProtocol(trackerUrl) ==
    LET colon == Least({i \in 1..Len(trackerUrl) : Ch(trackerUrl, i) = ":"})
        scheme == Sub(trackerUrl, 1, colon - 1)
    IN  IF /\ colon > 1
           /\ Ch(scheme, 1) \in LowerChars \cup UpperChars
           /\ \A i \in 1..Len(scheme) : IsAlnum(Ch(scheme, i)) \/ Ch(scheme, i) \in {"+", "-", "."}
        THEN toUpperCase(scheme) \o ":"
        ELSE ""

\* text.split('\n').map(t => t.trim()).filter(...)
trackerListOf(lines) ==
    SelectSeq([k \in 1..Len(lines) |-> trim(lines[k])],
              LAMBDA t : t # "" /\ (startsWith(t, "http") \/ startsWith(t, "udp") \/ startsWith(t, "ws")))

\* the forEach over trackerList: every URL goes to the list of its protocol
categorize(trackerList) ==
    [http |-> SelectSeq(trackerList, LAMBDA t : UrlProtocol(t) \in {"HTTP:", "HTTPS:"}),
     udp  |-> SelectSeq(trackerList, LAMBDA t : UrlProtocol(t) = "UDP:"),
     ws   |-> SelectSeq(trackerList, LAMBDA t : UrlProtocol(t) \in {"WS:", "WSS:"})]

\* the catch block: FALLBACK_TRACKERS by their prefix
fallbackSources ==
    [http |-> SelectSeq(FALLBACK_TRACKERS, LAMBDA t : startsWith(t, "http")),
     udp  |-> SelectSeq(FALLBACK_TRACKERS,
                        LAMBDA t : ~startsWith(t, "http") /\ startsWith(t, "udp")),
     ws   |-> SelectSeq(FALLBACK_TRACKERS,
                        LAMBDA t : ~startsWith(t, "http") /\ ~startsWith(t, "udp")
                                   /\ startsWith(t, "ws"))]

\* what the network answers a refresh with: a body of lines, a status that is not
\* OK, an error of the network, or nothing until the time limit
TrackerBodies ==
    { <<"udp://tracker.one:1337/announce", "http://tracker.two/announce", "  wss://tracker.three ">>,
      <<"https://tracker.four/announce", "", "ftp://tracker.five", "udpx">>,
      <<"", "ftp://tracker.five", "httpbad", "wsx://tracker.six">>,
      <<"">> }

Outcomes ==
    { [kind |-> "ok", lines |-> body] : body \in TrackerBodies }
    \cup { [kind |-> k, lines |-> <<>>] : k \in {"status", "error", "timeout"} }

EndOf_emptyListAccepted(outcome) == outcome.kind

\* how a refresh ends: "ok", or the reason for which it took the fallback list
EndOf(outcome) ==
    IF outcome.kind # "ok" THEN outcome.kind
    ELSE IF HasTrackers(categorize(trackerListOf(outcome.lines))) THEN "ok" ELSE "invalid"

afterRefresh_failureNotRecorded(now, outcome) ==
    IF EndOf(outcome) = "ok"
    THEN [cachedTrackers |-> categorize(trackerListOf(outcome.lines)), lastFetched |-> now]
    ELSE [cachedTrackers |-> fallbackSources, lastFetched |-> lastFetched]

\* the cache and the time of the last fetch when a refresh that read the time now
\* ends with outcome: the try block to its end, or the catch block
afterRefresh(now, outcome) ==
    IF EndOf(outcome) = "ok"
    THEN [cachedTrackers |-> categorize(trackerListOf(outcome.lines)), lastFetched |-> now]
    ELSE [cachedTrackers |-> fallbackSources, lastFetched |-> now]

MutexHeld_never == FALSE

\* if (isFetching)
MutexHeld == isFetching

CacheFresh_never == FALSE

\* now - lastFetched < CACHE_DURATION && the cache is not empty
CacheFresh == clock - lastFetched < CACHE_DURATION /\ HasTrackers(cachedTrackers)

\* fetchTrackers up to its first await, for a call by the caller `by`: it returns
\* at once when a refresh is in flight or the cache is fresh, and else takes the
\* mutex and issues the request
BeginFetch(by) ==
    IF MutexHeld \/ CacheFresh
    THEN UNCHANGED <<isFetching, inFlight>>
    ELSE /\ isFetching' = TRUE
         /\ inFlight' = Append(inFlight, [now |-> clock, by |-> by])

InitTrackers ==
    /\ pc = "trackers"
    /\ cachedTrackers = NoTrackerSources /\ lastFetched = 0
    /\ clock = StartTime /\ ticks = 0
    /\ returned = NoReturn /\ lastRefresh = NoRefresh
    \* the call of fetchTrackers at the end of the module, under Node.js only
    /\ \/ isFetching = TRUE /\ inFlight = <<[now |-> StartTime, by |-> "load"]>>
       \/ isFetching = FALSE /\ inFlight = <<>>
    /\ request = MovieRequest /\ config = DefaultConfig /\ upstream = <<>>
    /\ queryState = <<>> /\ queryResults = <<>>
    /\ rawResults = <<>> /\ uniqueResults = <<>> /\ parsedStreams = <<>>
    /\ log = NoLog
    /\ completed = <<>>
    /\ NoParse
    /\ NoRank
    /\ NoCalls

\* a call of fetchTrackers, up to its first await
FetchTrackers ==
    /\ pc = "trackers"
    /\ BeginFetch("fetchTrackers")
    /\ returned' = IF MutexHeld \/ CacheFresh
                   THEN [fn |-> "fetchTrackers", value |-> cachedTrackers, awaited |-> FALSE]
                   ELSE returned
    /\ UNCHANGED <<cachedTrackers, lastFetched, clock, ticks, lastRefresh>>
    /\ UNCHANGED <<request, config, upstream, pc, queryState, queryResults, rawResults,
                   uniqueResults, parsedStreams, log, parseIn, parseOut, matchOut,
                   completed, rankVars, regexVars>>

GetCachedTrackers_awaitsRefresh ==
    /\ pc = "trackers"
    /\ IF ~HasTrackers(cachedTrackers) /\ clock - lastFetched > EmptyCacheRetryDelay
          /\ ~isFetching
       THEN BeginFetch("fetchTrackers") /\ UNCHANGED returned
       ELSE /\ UNCHANGED <<isFetching, inFlight>>
            /\ returned' = [fn |-> "getCachedTrackers", value |-> cachedTrackers,
                            awaited |-> FALSE]
    /\ UNCHANGED <<cachedTrackers, lastFetched, clock, ticks, lastRefresh>>
    /\ UNCHANGED <<request, config, upstream, pc, queryState, queryResults, rawResults,
                   uniqueResults, parsedStreams, log, parseIn, parseOut, matchOut,
                   completed, rankVars, regexVars>>

\* a call of getCachedTrackers: it starts a refresh in the background when the cache
\* is empty, the last fetch is more than 30 s ago and no refresh is in flight, and
\* returns the cache
GetCachedTrackers ==
    /\ pc = "trackers"
    /\ IF ~HasTrackers(cachedTrackers) /\ clock - lastFetched > EmptyCacheRetryDelay
          /\ ~isFetching
       THEN BeginFetch("getCachedTrackers")
       ELSE UNCHANGED <<isFetching, inFlight>>
    /\ returned' = [fn |-> "getCachedTrackers", value |-> cachedTrackers, awaited |-> FALSE]
    /\ UNCHANGED <<cachedTrackers, lastFetched, clock, ticks, lastRefresh>>
    /\ UNCHANGED <<request, config, upstream, pc, queryState, queryResults, rawResults,
                   uniqueResults, parsedStreams, log, parseIn, parseOut, matchOut,
                   completed, rankVars, regexVars>>

FetchResolves_mutexKept(k, outcome) ==
    /\ pc = "trackers"
    /\ k \in 1..Len(inFlight)
    /\ outcome.kind = "timeout" <=> clock - inFlight[k].now >= FetchTimeout
    /\ \E after \in {afterRefresh(inFlight[k].now, outcome)} :
         /\ cachedTrackers' = after.cachedTrackers
         /\ lastFetched' = after.lastFetched
    /\ isFetching' = isFetching
    /\ inFlight' = [n \in 1..(Len(inFlight) - 1) |->
                        IF n < k THEN inFlight[n] ELSE inFlight[n + 1]]
    /\ lastRefresh' = [now |-> inFlight[k].now, outcome |-> EndOf(outcome),
                       by |-> inFlight[k].by, value |-> cachedTrackers']
    /\ returned' = IF inFlight[k].by = "fetchTrackers"
                   THEN [fn |-> "fetchTrackers", value |-> cachedTrackers', awaited |-> TRUE]
                   ELSE returned
    /\ UNCHANGED <<clock, ticks>>
    /\ UNCHANGED <<request, config, upstream, pc, queryState, queryResults, rawResults,
                   uniqueResults, parsedStreams, log, parseIn, parseOut, matchOut,
                   completed, rankVars, regexVars>>

\* the refresh k ends: fetchTrackers from its first await to its return.  The
\* request is aborted once FetchTimeout has passed, and not before
FetchResolves(k, outcome) ==
    /\ pc = "trackers"
    /\ k \in 1..Len(inFlight)
    /\ outcome.kind = "timeout" <=> clock - inFlight[k].now >= FetchTimeout
    /\ \E after \in {afterRefresh(inFlight[k].now, outcome)} :
         /\ cachedTrackers' = after.cachedTrackers
         /\ lastFetched' = after.lastFetched
    /\ isFetching' = FALSE
    /\ inFlight' = [n \in 1..(Len(inFlight) - 1) |->
                        IF n < k THEN inFlight[n] ELSE inFlight[n + 1]]
    /\ lastRefresh' = [now |-> inFlight[k].now, outcome |-> EndOf(outcome),
                       by |-> inFlight[k].by, value |-> cachedTrackers']
    /\ returned' = IF inFlight[k].by = "fetchTrackers"
                   THEN [fn |-> "fetchTrackers", value |-> cachedTrackers', awaited |-> TRUE]
                   ELSE returned
    /\ UNCHANGED <<clock, ticks>>
    /\ UNCHANGED <<request, config, upstream, pc, queryState, queryResults, rawResults,
                   uniqueResults, parsedStreams, log, parseIn, parseOut, matchOut,
                   completed, rankVars, regexVars>>

\* time passes
Tick(d) ==
    /\ pc = "trackers"
    /\ ticks < MaxTicks
    /\ clock' = clock + d
    /\ ticks' = ticks + 1
    /\ UNCHANGED <<cachedTrackers, lastFetched, isFetching, inFlight, returned, lastRefresh>>
    /\ UNCHANGED <<request, config, upstream, pc, queryState, queryResults, rawResults,
                   uniqueResults, parsedStreams, log, parseIn, parseOut, matchOut,
                   completed, rankVars, regexVars>>

NextTrackers ==
    \/ FetchTrackers
    \/ GetCachedTrackers
    \/ \E k \in 1..Len(inFlight) : \E outcome \in Outcomes : FetchResolves(k, outcome)
    \/ \E d \in {FetchTimeout, EmptyCacheRetryDelay + 1, CACHE_DURATION} : Tick(d)

SpecTrackers == InitTrackers /\ [][NextTrackers]_vars

\* the request of a refresh ends: AbortSignal.timeout(15000) aborts the one that
\* has not been answered, so the await of fetch does not last for ever
SpecTrackersLive ==
    SpecTrackers /\ WF_vars(\E k \in 1..Len(inFlight) : \E outcome \in Outcomes :
                              FetchResolves(k, outcome))

-----------------------------------------------------------------------------
(* The quality classifier                                                  *)

VideoQualityRank ==
    { UHD_BLURAY, BLURAY_1080P, WEBDL_2160P, WEBDL_1080P, BLURAY_720P, WEBDL_720P,
      HDTV_1080P, DVD, HDTV_720P, SD, LOW_QUALITY, UNKNOWN }

\* C11: getQualityRank is total: whatever it is called with, a record with any
\* resolution and source or no record at all, it returns one of the twelve values of
\* VideoQualityRank, and it returns UNKNOWN when the record is missing.
C11_RankIsTotal ==
    pc = "ranked" =>
        /\ rankOut \in VideoQualityRank
        /\ IsUndefined(rankIn) => rankOut = UNKNOWN

\* the call without a record has returned
C11_MissingRecordRanked ==
    pc = "ranked" /\ IsUndefined(rankIn) /\ rankOut = UNKNOWN


\* C12: a record whose source contains CAM, TS, TELESYNC, TC, TELECINE, SCR, SCREENER
\* or DVDSCR (in any letter case) is ranked LOW_QUALITY, whatever its resolution is,
\* 1080P and 2160P included.
C12_LowQualityMarkerWins ==
    (pc = "ranked" /\ ~IsUndefined(rankIn)) =>
        \A source \in {toUpperCase(rankIn.qualitySource)} :
            (\E term \in {"CAM", "TS", "TELESYNC", "TC", "TELECINE", "SCR", "SCREENER", "DVDSCR"} :
                includes(source, term))
            => rankOut = LOW_QUALITY

\* a 2160P record whose source holds a marker inside a longer word has been ranked
C12_MarkerBesideHighResolution ==
    /\ pc = "ranked" /\ ~IsUndefined(rankIn)
    /\ rankIn.resolution = "2160P" /\ rankIn.qualitySource = "HDCAM"
    /\ rankOut = LOW_QUALITY

\* the source holds none of LOW_QUALITY_TERMS
NoLowQualityMarker(source) ==
    \A k \in 1..Len(LOW_QUALITY_TERMS) : ~includes(source, LOW_QUALITY_TERMS[k])

\* key is a key of the rank table / the rank is the one the table gives for key
InRankTable(key) == \E p \in QUALITY_RANK_MAP : p[1] = key
IsTableRank(rank, key) == \A p \in QUALITY_RANK_MAP : p[1] = key => rank = p[2]

\* token is what source reads up to its first white space or hyphen
IsFirstToken(token, source) ==
    \E n \in 0..Len(source) :
        /\ token = Sub(source, 1, n)
        /\ \A i \in 1..n : Ch(source, i) \notin {" ", "-"}
        /\ n = Len(source) \/ Ch(source, n + 1) \in {" ", "-"}

\* the record has a resolution other than 480P, 360P and SD and a source, and the
\* rank table has an entry for the resolution with the source without hyphens or
\* with the first token of the source
CombinedEntryApplies(resolution, source) ==
    /\ resolution # "" /\ source # ""
    /\ \/ InRankTable(resolution \o " " \o RemoveHyphens(source))
       \/ \E token \in {Sub(source, 1, n) : n \in 0..Len(source)} :
             IsFirstToken(token, source) /\ InRankTable(resolution \o " " \o token)

C14_SourceThenResolution ==
    (pc = "ranked" /\ ~IsUndefined(rankIn)) =>
        \A resolution \in {toUpperCase(rankIn.resolution)} :
        \A source \in {toUpperCase(rankIn.qualitySource)} :
            (/\ NoLowQualityMarker(source)
             /\ resolution \notin {"480P", "360P", "SD"}
             /\ ~CombinedEntryApplies(resolution, source))
            => \A sourceKeys \in {{k \in {source, RemoveHyphens(source)} :
                                       source # "" /\ InRankTable(k)}} :
                  IF sourceKeys # {} THEN \A k \in sourceKeys : IsTableRank(rankOut, k)
                  ELSE IF resolution # "" /\ InRankTable(resolution)
                       THEN IsTableRank(rankOut, resolution)
                  ELSE rankOut = UNKNOWN

\* the ranks as the claim groups them: UNKNOWN, LOW_QUALITY, SD, the HDTV tiers, DVD,
\* the WEB-DL tiers, the BluRay tiers
StatedTier(rank) ==
    CASE rank = UNKNOWN -> 0
      [] rank = LOW_QUALITY -> 1
      [] rank = SD -> 2
      [] rank \in {HDTV_720P, HDTV_1080P} -> 3
      [] rank = DVD -> 4
      [] rank \in {WEBDL_720P, WEBDL_1080P, WEBDL_2160P} -> 5
      [] rank \in {BLURAY_720P, BLURAY_1080P, UHD_BLURAY} -> 6

\* C15 as stated: UNKNOWN < LOW_QUALITY < SD < every HDTV tier < DVD < every WEB-DL
\* tier < every BluRay tier, with UHD_BLURAY the maximum: the rank of a classified
\* record is below every rank of a later group and not above UHD_BLURAY.  The enum
\* puts HDTV_1080P above DVD, and BLURAY_720P below WEBDL_1080P and WEBDL_2160P.
C15_OrderAsStated ==
    pc = "ranked" =>
        /\ rankOut <= UHD_BLURAY
        /\ \A other \in VideoQualityRank :
              StatedTier(rankOut) < StatedTier(other) => rankOut < other

\* the twelve ranks from the lowest to the highest
RankChain ==
    << UNKNOWN, LOW_QUALITY, SD, HDTV_720P, DVD, HDTV_1080P, WEBDL_720P, BLURAY_720P,
       WEBDL_1080P, WEBDL_2160P, BLURAY_1080P, UHD_BLURAY >>

\* C15: the twelve ranks are totally ordered, UNKNOWN < LOW_QUALITY < SD < HDTV_720P
\* < DVD < HDTV_1080P < WEBDL_720P < BLURAY_720P < WEBDL_1080P < WEBDL_2160P <
\* BLURAY_1080P < UHD_BLURAY, with UHD_BLURAY the maximum: the rank of a classified
\* record has one place in this chain, above exactly the ranks before that place and
\* below exactly the ranks behind it.
C15_RankOrder ==
    pc = "ranked" =>
        /\ rankOut <= UHD_BLURAY
        /\ \E k \in 1..Len(RankChain) :
              /\ rankOut = RankChain[k]
              /\ \A i \in 1..Len(RankChain) :
                    /\ i < k <=> RankChain[i] < rankOut
                    /\ i > k <=> RankChain[i] > rankOut

\* a 1080P HDTV record has been ranked, above DVD
C15_HdtvAboveDvd ==
    /\ pc = "ranked" /\ ~IsUndefined(rankIn)
    /\ rankIn.resolution = "1080P" /\ rankIn.qualitySource = "HDTV"
    /\ rankOut = HDTV_1080P /\ rankOut > DVD


-----------------------------------------------------------------------------
(* Failing queries and the order in which the queries complete             *)

\* the streams is the answer to the request when raw is the merged list of records
IsResponseTo(streams, raw) ==
    \A unique \in {Call("dedupe", <<raw>>)} :
    \A parsed \in {Call("mapTorrents", <<unique, request>>)} :
    \A seeded \in {Call("minSeedersFilter", <<parsed, config>>)} :
    \A filtered \in {Call("lowQualityFilter", <<seeded, config>>)} :
        streams = Call("sort", <<filtered, config>>)

\* raw is the records of the queries in the set served, query after query in the
\* order in which the queries were issued
RECURSIVE IsMergeOf(_, _, _)
IsMergeOf(raw, served, i) ==
    IF i > Len(queryResults) THEN raw = <<>>
    ELSE \A n \in {IF i \in served THEN Len(queryResults[i]) ELSE 0} :
            /\ n <= Len(raw)
            /\ \A k \in 1..n : raw[k] = queryResults[i][k]
            /\ IsMergeOf(SubSeq(raw, n + 1, Len(raw)), served, i + 1)

\* C16: when any of the parallel queries of a request fail, processStreamRequest
\* still runs to its end: every query has ended, a failed one with the empty list,
\* and the answer is computed from exactly the records of the queries that
\* succeeded; when all of them fail the answer is the empty list.
C16_FailedQueriesCountAsEmpty ==
    (pc = "done" /\ queryState # <<>>) =>
        \A failed \in {{i \in 1..Len(queryState) : queryState[i] = "failed"}} :
        \A ok \in {{i \in 1..Len(queryState) : queryState[i] = "ok"}} :
            /\ failed \cup ok = 1..Len(queryState)
            /\ \A i \in failed : queryResults[i] = <<>>
            /\ IsMergeOf(rawResults, ok, 1)
            /\ IsResponseTo(parsedStreams, rawResults)
            /\ ok = {} => parsedStreams = <<>>

\* a request has been answered with streams although one of its queries failed
C16_AnsweredDespiteFailure ==
    /\ pc = "done"
    /\ \E i, j \in 1..Len(queryState) :
         queryState[i] = "failed" /\ queryState[j] = "ok" /\ queryResults[j] # <<>>
    /\ parsedStreams # <<>>

\* C17: the answer to a request is the same for every order in which its queries
\* complete: the records are merged in the order in which the queries were issued
\* (title and year, title only, id), whatever the order of completion was, and the
\* unique records and the streams are computed from that list alone.
C17_IssueOrderMerge ==
    (pc = "done" /\ queryState # <<>>) =>
        /\ \A i, j \in 1..Len(queryResults) :
              \A a \in 1..Len(queryResults[i]) : \A b \in 1..Len(queryResults[j]) :
                 i < j => \E m, n \in 1..Len(rawResults) :
                            /\ m < n
                            /\ rawResults[m] = queryResults[i][a]
                            /\ rawResults[n] = queryResults[j][b]
        /\ IsMergeOf(rawResults, 1..Len(queryResults), 1)
        /\ uniqueResults = Call("dedupe", <<rawResults>>)
        /\ IsResponseTo(parsedStreams, rawResults)

\* a request has been answered whose second query completed before the first, the
\* two having returned different records of one infoHash
C17_CompletedOutOfIssueOrder ==
    /\ pc = "done"
    /\ completed = <<2, 1>>
    /\ \E a \in 1..Len(queryResults[1]) : \E b \in 1..Len(queryResults[2]) :
         /\ queryResults[1][a].infoHash = queryResults[2][b].infoHash
         /\ queryResults[1][a] # queryResults[2][b]
    /\ parsedStreams # <<>>


-----------------------------------------------------------------------------
(* The tracker cache                                                       *)

\* C18: at most one refresh of the tracker list is in flight, however the calls of
\* fetchTrackers and getCachedTrackers interleave; and a call of fetchTrackers made
\* while a refresh is in flight issues no request and returns the cache as it is,
\* without waiting.
C18_OneRefreshInFlight ==
    /\ [](Len(inFlight) <= 1 /\ (isFetching <=> inFlight # <<>>))
    /\ [][(FetchTrackers /\ inFlight # <<>>) =>
            /\ inFlight' = inFlight
            /\ returned' = [fn |-> "fetchTrackers", value |-> cachedTrackers,
                            awaited |-> FALSE]]_vars

\* fetchTrackers has returned at once while a refresh is in flight
C18_CalledDuringRefresh ==
    /\ pc = "trackers"
    /\ Len(inFlight) = 1 /\ isFetching
    /\ returned = [fn |-> "fetchTrackers", value |-> cachedTrackers, awaited |-> FALSE]

\* C19: getCachedTrackers never blocks and never fails: it can be called in every
\* state and returns the cache of that state at once, leaving the cache as it is; at
\* most it starts one refresh in the background, and when that refresh fails the
\* failure reaches no caller: the refresh ends with the fallback list in the cache.
C19_CachedTrackersAtOnce ==
    /\ [](pc = "trackers" => ENABLED GetCachedTrackers)
    /\ [][GetCachedTrackers =>
            /\ returned' = [fn |-> "getCachedTrackers", value |-> cachedTrackers,
                            awaited |-> FALSE]
            /\ cachedTrackers' = cachedTrackers /\ lastFetched' = lastFetched
            /\ \/ inFlight' = inFlight
               \/ inFlight' = Append(inFlight, [now |-> clock, by |-> "getCachedTrackers"])]_vars
    /\ []((lastRefresh.by = "getCachedTrackers" /\ lastRefresh.outcome # "ok")
            => lastRefresh.value = fallbackSources)

\* getCachedTrackers has returned the empty cache and started a refresh in the
\* background
C19_BackgroundRefreshStarted ==
    /\ pc = "trackers"
    /\ returned = [fn |-> "getCachedTrackers", value |-> NoTrackerSources, awaited |-> FALSE]
    /\ Len(inFlight) = 1 /\ inFlight[1].by = "getCachedTrackers"

\* C20: when a refresh fails (network error or time limit, status that is not OK, or
\* a list without a valid tracker URL), the cache becomes the fallback list, the
\* call of fetchTrackers returns that list instead of raising, and the attempt
\* counts as a fetch: lastFetched is the time of the attempt, and no refresh starts
\* before CACHE_DURATION has passed since then.
C20_FallbackOnFailure ==
    (pc = "trackers" /\ lastRefresh.outcome \in {"error", "timeout", "status", "invalid"}) =>
        /\ cachedTrackers = fallbackSources
        /\ HasTrackers(cachedTrackers)
        /\ lastRefresh.value = fallbackSources
        /\ lastFetched = lastRefresh.now
        /\ \A k \in 1..Len(inFlight) : inFlight[k].now - lastRefresh.now >= CACHE_DURATION

\* a call of fetchTrackers has waited for a refresh that failed and has returned the
\* fallback list
C20_FailedRefreshReturned ==
    /\ pc = "trackers"
    /\ lastRefresh.by = "fetchTrackers" /\ lastRefresh.outcome = "invalid"
    /\ returned = [fn |-> "fetchTrackers", value |-> fallbackSources, awaited |-> TRUE]
    /\ Len(fallbackSources.udp) = 8 /\ Len(fallbackSources.ws) = 2


-----------------------------------------------------------------------------
(* Values supplied by the index                                            *)

\* the value of a field of a candidate: the one the index supplies, and the one
\* derived from the title only when the index supplies none
SuppliedElse(supplied, derived) == IF supplied # "" THEN supplied ELSE derived

\* the rank of every unique record, computed from the title's metadata with the
\* supplied resolution, codec and source in the place of the derived ones
SuppliedRanks ==
    [k \in 1..Len(uniqueResults) |->
        Call("getQualityRank",
             <<[parsedMetaTable[<<uniqueResults[k], request>>] EXCEPT
                  !.resolution    = SuppliedElse(uniqueResults[k].videoResolution, @),
                  !.videoCodec    = SuppliedElse(uniqueResults[k].videoCodec, @),
                  !.qualitySource = SuppliedElse(uniqueResults[k].source, @)]>>)]

\* the place among the unique records of the record a stream was made from
RecordOf(stream) == CHOOSE k \in 1..Len(uniqueResults) : uniqueResults[k].infoHash = stream.infoHash

\* C21: when the record of the index supplies a resolution, a video codec or a
\* source, the metadata of the candidate holds the supplied value, and the value
\* derived from the title only when the field is absent; and the rank that
\* low-quality elimination and the Quality key work with is the rank of the supplied
\* values: elimination is active exactly when a candidate of such a rank of at least
\* HDTV_720P is left, it then leaves no candidate of such a rank LOW_QUALITY or
\* UNKNOWN, and under Quality as the first key these ranks never rise along the
\* answer.
C21_SuppliedValuesOverride ==
    pc = "done" =>
        \A ranks \in {SuppliedRanks} :
            /\ \A n \in 1..Len(log.parsed) :
                  \A torrent \in {uniqueResults[RecordOf(log.parsed[n])]} :
                  \A derived \in {parsedMetaTable[<<torrent, request>>]} :
                  \A meta \in {log.parsed[n].parsedMeta} :
                     /\ meta.resolution = SuppliedElse(torrent.videoResolution, derived.resolution)
                     /\ meta.videoCodec = SuppliedElse(torrent.videoCodec, derived.videoCodec)
                     /\ meta.qualitySource = SuppliedElse(torrent.source, derived.qualitySource)
            /\ IF /\ config.filterLowQuality
                  /\ \E n \in 1..Len(log.seeded) : ranks[RecordOf(log.seeded[n])] >= HDTV_720P
               THEN \A n \in 1..Len(log.filtered) :
                       ranks[RecordOf(log.filtered[n])] \notin {LOW_QUALITY, UNKNOWN}
               ELSE log.filtered = log.seeded
            /\ config.sortPreference[1] = "quality" =>
                  \A i, j \in 1..Len(parsedStreams) :
                     i < j => ranks[RecordOf(parsedStreams[i])] >= ranks[RecordOf(parsedStreams[j])]

\* a request has been answered with a candidate whose title says 720p HDTV and
\* whose record says 1080p BluRay, ranked first, while a candidate whose title says
\* BluRay and whose record says CAM was eliminated
C21_RecordContradictsTitle ==
    /\ pc = "done"
    /\ Len(parsedStreams) >= 1
    /\ parsedStreams[1].infoHash = "v1"
    /\ parsedStreams[1].parsedMeta.resolution = "1080p"
    /\ parsedStreams[1].parsedMeta.qualitySource = "BluRay"
    /\ parsedStreams[1].parsedMeta.videoCodec = "x265"
    /\ parsedMetaTable[<<SuppliedIndex[1], request>>].resolution = "720P"
    /\ \E n \in 1..Len(log.seeded) : log.seeded[n].infoHash = "v2"
    /\ \A n \in 1..Len(parsedStreams) : parsedStreams[n].infoHash # "v2"


-----------------------------------------------------------------------------
(* The extractor                                                           *)

\* the arguments of the call of parseTorrentTitle that parsed parseIn
SearchTitleIn == standardizedTitleOf(request)
ContextYearIn ==
    contextYearForParsing(Torrent("h", parseIn, undefinedNum, undefinedNum),
                          standardizedYearOf(request))

\* the metadata before the first step and after each of the steps 1..n of the call
RECURSIVE MetadataTrace(_)
MetadataTrace(n) ==
    IF n = 0 THEN <<EmptyMetadata(parseIn)>>
    ELSE The({ Append(before, parseStep(n, before[n], parseIn, SearchTitleIn, ContextYearIn,
                                        LoadedPatterns))
               : before \in {MetadataTrace(n - 1)} })

\* the first token of the title, in the order of the text, that one of alts matches
FirstToken(alts) ==
    The({ IF all = <<>> THEN "" ELSE toUpperCase(all[1])
          : all \in {Call("AllWordAltFrom", <<parseIn, 1, alts>>)} })

\* the year of the first year of s, in the order of the text
FirstYear(s) ==
    The({ IF i = 0 THEN undefinedNum ELSE parseInt(Sub(s, i, i + 3))
          : i \in {Least({j \in 1..Len(s) : YearLenAt(s, j) > 0})} })

\* what the first season/episode signal of the title captures
FirstEpisodeSignal ==
    The({ IF i = 0 THEN ""
          ELSE The({ toUpperCase(IF m.g1 # "" THEN m.g1 ELSE Sub(parseIn, i, i + m.len - 1))
                     : m \in {SeasonEpisodeAt(parseIn, i)} })
          : i \in {Least({j \in 1..Len(parseIn) : SeasonEpisodeAt(parseIn, j).len > 0})} })

\* the group of the first match of the release group pattern: the leftmost place,
\* at the start of the title or behind a separator, from which the title reads as a
\* group to its end
FirstGroup ==
    The({ IF q = 0 THEN "" ELSE stripHyphen(Sub(parseIn, q, Len(parseIn)))
          : q \in {Least({j \in 1..Len(parseIn) :
                            /\ j = 1 \/ Ch(parseIn, j - 1) \in GroupSeparators
                            /\ IsGroupTail(parseIn, j)})} })

\* C22: a call of parseTorrentTitle assigns each of year, episodeInfo, resolution,
\* qualitySource, videoCodec and releaseGroup at most once, and no step replaces a
\* field that is set; the value is taken from the first match in the order of the
\* text: of several resolution tokens the first is captured, and likewise for the
\* source, the codec, the season/episode signal, the release group and the year (a
\* year handed in with the call takes the place of the year of the text, and the
\* year of the search title is taken only when the title holds none).
C22_FirstMatchSetOnce ==
    pc = "parsed" =>
        \A trace \in {MetadataTrace(12)} :
            /\ parseOut = trace[13]
            /\ \A field \in {"year", "episodeInfo", "resolution", "qualitySource",
                               "videoCodec", "releaseGroup"} :
                  /\ Cardinality({n \in 1..12 : trace[n + 1][field] # trace[n][field]}) <= 1
                  /\ \A n \in 1..12 : IsSet(trace[n], field) => trace[n + 1][field] = trace[n][field]
            /\ parseOut.resolution = FirstToken(RESOLUTION_ALTS)
            /\ parseOut.qualitySource = FirstToken(QUALITY_SOURCE_ALTS)
            /\ parseOut.videoCodec = FirstToken(VIDEO_CODEC_ALTS)
            /\ parseOut.episodeInfo = FirstEpisodeSignal
            /\ parseOut.releaseGroup = FirstGroup
            /\ parseOut.year = IF TruthyNum(ContextYearIn) THEN ContextYearIn
                               ELSE IF TruthyNum(FirstYear(parseIn)) THEN FirstYear(parseIn)
                               ELSE FirstYear(SearchTitleIn)

\* a title with two resolutions, two sources, two codecs and two years has been
\* parsed
C22_SeveralTokensOfAKind ==
    /\ pc = "parsed"
    /\ parseIn = "Movie.1999.720p.1080p.HDTV.BluRay.x264.HEVC.2005"
    /\ ~TruthyNum(ContextYearIn)
    /\ parseOut.resolution = "720P" /\ parseOut.qualitySource = "HDTV"
    /\ parseOut.videoCodec = "X264" /\ parseOut.year = 1999


\* titles of the form <Title words>.<year>.<resolution>.<source>.<codec>-<GROUP>,
\* with their parts
ReleaseTitles ==
    { [title |-> "Movie.Title.2023.1080p.BluRay.x264-GROUP", words |-> "Movie Title",
       year |-> 2023, resolution |-> "1080P", source |-> "BLURAY", codec |-> "X264",
       group |-> "GROUP", rank |-> BLURAY_1080P],
      [title |-> "Other.Film.2019.720p.HDTV.HEVC-RLS", words |-> "Other Film",
       year |-> 2019, resolution |-> "720P", source |-> "HDTV", codec |-> "HEVC",
       group |-> "RLS", rank |-> HDTV_720P] }

\* C23: for a title of the form <Title words>.<year>.<resolution>.<source>.<codec>-<GROUP>
\* the extractor yields the resolution, the source and the codec in upper case, the
\* year as a number, the release group GROUP (the token behind the last hyphen,
\* without the codec), the rank of the table for the resolution and the source, and
\* a cleaned title made of the title words only.  The code captures the codec with
\* the group ("x264-GROUP"), and the group is then left in the cleaned title.
C23_ReleaseTitleParts ==
    (pc = "parsed" /\ ~TruthyNum(ContextYearIn)) =>
        \A form \in ReleaseTitles :
            parseIn = form.title =>
                /\ parseOut.resolution = form.resolution
                /\ parseOut.qualitySource = form.source
                /\ parseOut.videoCodec = form.codec
                /\ parseOut.year = form.year
                /\ Call("getQualityRank", <<parseOut>>) = form.rank
                /\ parseOut.releaseGroup = form.group
                /\ parseOut.cleanedTitle = form.words


-----------------------------------------------------------------------------
(* Calls of parseTorrentTitle one after another: the global patterns keep   *)
(* their lastIndex from one call to the next                               *)

MaxCalls == 3

HistoryTitles ==
    { "Movie.Title.2023.1080p.BluRay.x264-GROUP", "1080p.BluRay.2021.Film.3D.700MB.x265",
      "Show.S01E02.720p.HDTV", "CAM" }

HistoryRequests == { MovieRequest, NamedRequest }

InitHistory ==
    /\ request \in HistoryRequests
    /\ NoParse
    /\ pc = "calls"
    /\ config = DefaultConfig
    /\ upstream = <<>>
    /\ queryState = <<>> /\ queryResults = <<>>
    /\ rawResults = <<>> /\ uniqueResults = <<>> /\ parsedStreams = <<>>
    /\ log = NoLog
    /\ completed = <<>>
    /\ NoRank
    /\ NoTrackers
    /\ NoCalls

\* the mapper's callback on one torrent of the request, up to the rank of what it
\* parsed
ParseNext(title) ==
    /\ pc = "calls"
    /\ Len(calls) < MaxCalls
    /\ parseIn' = title
    /\ \E torrent \in {Torrent("h", title, undefinedNum, undefinedNum)} :
         \E metadata \in {parsedMetaFrom(torrent, request, REGEX_PATTERNS)} :
           \E rank \in {Call("getQualityRank", <<metadata>>)} :
             /\ parseOut' = metadata
             /\ rankIn' = metadata
             /\ rankOut' = rank
             /\ REGEX_PATTERNS' = Call("patternsAfterAll", <<<<torrent>>, request, REGEX_PATTERNS>>)
             /\ calls' = Append(calls, [title |-> title, carried |-> REGEX_PATTERNS,
                                        metadata |-> metadata, rank |-> rank])
    /\ UNCHANGED <<request, config, upstream, pc, queryState, queryResults, rawResults,
                   uniqueResults, parsedStreams, log, matchOut, completed, trackerVars>>

NextHistory == \E title \in HistoryTitles : ParseNext(title)

SpecHistory == InitHistory /\ [][NextHistory]_vars

\* C24: extraction followed by classification is deterministic and independent
\* of the calls made before: two calls with the same title for a request return
\* the same metadata and the same rank, whatever the global patterns carried into
\* them
C24_IndependentOfHistory ==
    \A i \in DOMAIN calls : \A j \in DOMAIN calls :
      calls[i].title = calls[j].title
      => (calls[i].metadata = calls[j].metadata /\ calls[i].rank = calls[j].rank)

\* a title is parsed, then another one, then the first again, and the patterns
\* carry other positions into the third call than into the first
C24_SameTitleAfterAnother ==
    /\ Len(calls) = 3
    /\ calls[1].title = calls[3].title
    /\ calls[2].title # calls[1].title
    /\ calls[3].carried # calls[1].carried
    /\ calls[3].carried.RESOLUTION > 0
    /\ calls[3].metadata.resolution # ""


-----------------------------------------------------------------------------
(* The season/episode check on explicit S<s>E<e> signals                    *)

SignalSeasons == {1, 2, 11}
SignalEpisodes == {2, 3, 20, 21}

\* S<s>E<e> as a title writes it, with the numbers padded to two digits or not
SignalForms(season, episode) ==
    { "S" \o padStart2(numToString(season)) \o "E" \o padStart2(numToString(episode)),
      "S" \o numToString(season) \o "E" \o numToString(episode) }

EpisodeSignals ==
    UNION { SignalForms(season, episode) : season \in SignalSeasons, episode \in SignalEpisodes }

\* the mapper's callback at its season/episode check, parsedMeta.episodeInfo being
\* an explicit signal
InitMatcher ==
    /\ request \in ParseRequests
    /\ parseIn = ""
    /\ \E signal \in EpisodeSignals : parseOut = [EmptyMetadata("") EXCEPT !.episodeInfo = signal]
    /\ matchOut = FALSE
    /\ pc = "parsed"
    /\ config = DefaultConfig
    /\ upstream = <<>>
    /\ queryState = <<>> /\ queryResults = <<>>
    /\ rawResults = <<>> /\ uniqueResults = <<>> /\ parsedStreams = <<>>
    /\ log = NoLog
    /\ completed = <<>>
    /\ NoRank
    /\ NoTrackers
    /\ NoCalls

NextMatcher == MatchEpisode

SpecMatcher == InitMatcher /\ [][NextMatcher]_vars

-----------------------------------------------------------------------------
(* The tracker cache                                                       *)

\* C26: a call of fetchTrackers made while the cache is not empty and less than
\* six hours have passed since the recorded fetch returns the cached list, starts
\* no request and leaves the cache and the recorded fetch time as they are; and a
\* request is started only when the six hours have passed or the cache is empty.
C26_FreshCacheServed ==
    [][/\ (FetchTrackers /\ HasTrackers(cachedTrackers)
                          /\ clock - lastFetched < CACHE_DURATION)
          => /\ returned' = [fn |-> "fetchTrackers", value |-> cachedTrackers,
                             awaited |-> FALSE]
             /\ inFlight' = inFlight
             /\ cachedTrackers' = cachedTrackers
             /\ lastFetched' = lastFetched
       /\ Len(inFlight') > Len(inFlight)
          => (clock - lastFetched >= CACHE_DURATION \/ ~HasTrackers(cachedTrackers))]_vars

\* fetchTrackers has returned a cache that a refresh filled less than six hours
\* before, and no request is under way
C26_ServedWithinWindow ==
    /\ returned.fn = "fetchTrackers" /\ ~returned.awaited
    /\ returned.value = cachedTrackers
    /\ HasTrackers(cachedTrackers)
    /\ lastRefresh.outcome # ""
    /\ clock - lastFetched < CACHE_DURATION
    /\ ~isFetching /\ inFlight = <<>>


\* C29: once a refresh has ended, whichever way, the cached tracker list is not
\* empty, in that state and in every later one.
C29_CacheNeverEmptyAgain ==
    lastRefresh.outcome # "" => HasTrackers(cachedTrackers)

\* a refresh was answered with a list that holds no tracker, and time has passed
\* since
C29_AfterUselessAnswer ==
    /\ lastRefresh.outcome = "invalid"
    /\ clock > lastRefresh.now
    /\ HasTrackers(cachedTrackers)

\* C30: every refresh that starts clears the in-progress flag in the end, given
\* that its request ends; and with the flag clear, a call of fetchTrackers made
\* once the six hours have passed can start the next refresh.
C30_RefreshEnds ==
    /\ isFetching ~> ~isFetching
    /\ [](inFlight # <<>> => isFetching)
    /\ []((~isFetching /\ clock - lastFetched >= CACHE_DURATION)
            => ENABLED (FetchTrackers /\ isFetching' /\ Len(inFlight') = 1))

\* a second refresh is under way, started by fetchTrackers six hours or more
\* after the fetch that the first one recorded
C30_NextRefreshStarted ==
    /\ lastRefresh.outcome # ""
    /\ isFetching
    /\ Len(inFlight) = 1
    /\ inFlight[1].by = "fetchTrackers"
    /\ inFlight[1].now - lastFetched >= CACHE_DURATION


-----------------------------------------------------------------------------
(* The order of the stages                                                 *)

\* the candidate that the mapper makes of a torrent of the request
CandidateOf(torrent) == toStream(torrent, parsedMetaTable[<<torrent, request>>])

\* the torrent is dropped by the season/episode check
DroppedByMatcher(torrent) ==
    ~Call("episodeMatches", <<parsedMetaTable[<<torrent, request>>], request.type,
                              request.season, request.episode>>)

\* the torrent passes the season/episode check and is dropped for its seeders
DroppedBySeeders(torrent) ==
    /\ ~DroppedByMatcher(torrent)
    /\ config.minSeeders > 0
    /\ OrNum(CandidateOf(torrent).seeders, 0) < config.minSeeders

DecentAlternative(torrent) ==
    Call("getQualityRank", <<CandidateOf(torrent).parsedMeta>>) >= HDTV_720P

InOutput(torrent) ==
    \E n \in 1..Len(parsedStreams) : parsedStreams[n].infoHash = torrent.infoHash

\* C27: the season/episode check and the minimum-seeders step come before the
\* low-quality elimination and the sort: a candidate that one of the two dropped
\* is not in the response, and it does not count as the decent alternative, so
\* that nothing is eliminated when none of the candidates that the two steps
\* left is decent.
C27_DroppedBeforeElimination ==
    pc = "done" =>
      \A dropped \in {{ uniqueResults[k] : k \in {j \in 1..Len(uniqueResults) :
                             DroppedByMatcher(uniqueResults[j])
                             \/ DroppedBySeeders(uniqueResults[j])} }} :
        \A left \in {{ uniqueResults[k] : k \in 1..Len(uniqueResults) } \ dropped} :
          /\ \A torrent \in dropped : ~InOutput(torrent)
          /\ (\A torrent \in left : ~DecentAlternative(torrent))
               => \A torrent \in left : InOutput(torrent)

\* a decent candidate was dropped by the season/episode check, another one for
\* its seeders, and the recording that is left is in the response
C27_DecentCandidatesDropped ==
    /\ pc = "done"
    /\ config.filterLowQuality
    /\ \E k \in 1..Len(uniqueResults) :
         DroppedByMatcher(uniqueResults[k]) /\ DecentAlternative(uniqueResults[k])
    /\ \E k \in 1..Len(uniqueResults) :
         DroppedBySeeders(uniqueResults[k]) /\ DecentAlternative(uniqueResults[k])
    /\ \E k \in 1..Len(uniqueResults) :
         /\ InOutput(uniqueResults[k])
         /\ ~keepsQuality(CandidateOf(uniqueResults[k]))


\* C28: the low-quality elimination does not empty the list: when it is active,
\* every candidate of rank HDTV_720P or better that entered it leaves it, so a
\* list that is not empty before the step is not empty after it.
C28_DecentCandidatesSurvive ==
    pc = "done" =>
      /\ \A k \in 1..Len(log.seeded) :
           Call("getQualityRank", <<log.seeded[k].parsedMeta>>) >= HDTV_720P
           => \E n \in 1..Len(log.filtered) : log.filtered[n] = log.seeded[k]
      /\ log.seeded # <<>> => log.filtered # <<>>
      /\ \A n \in 1..Len(parsedStreams) :
           \E k \in 1..Len(log.filtered) : log.filtered[k] = parsedStreams[n]
      /\ Len(parsedStreams) = Len(log.filtered)

\* the elimination has removed a candidate, and a candidate of a low resolution
\* that ranks as a DVD has come through it
C28_DvdOfLowResolutionKept ==
    /\ pc = "done"
    /\ Len(log.filtered) < Len(log.seeded)
    /\ \E n \in 1..Len(parsedStreams) :
         /\ InSeq(LOW_QUALITY_RESOLUTIONS, toUpperCase(parsedStreams[n].parsedMeta.resolution))
         /\ Call("getQualityRank", <<parsedStreams[n].parsedMeta>>) = DVD

=============================================================================
